---- MODULE Spec2Model ----
(***************************************************************************)
(* Address linking (src/src/Linker): a reference table is loaded into a    *)
(* Linker, which builds a StreetsFinder bank of spellings; link/getkey     *)
(* resolve an Address to the Key of a reference row.                       *)
(*                                                                         *)
(* Text is modelled as sequences of one-character strings.  Cyrillic text  *)
(* of the program is transliterated: "UL." is the short form of STREET,    *)
(* "PL." of PLOSHAD, lower-case Latin letters are lower-case letters.      *)
(***************************************************************************)
EXTENDS Integers, Sequences, FiniteSets, TLC

VARIABLES table, linker, call, finder, done, parsed, record

vars == <<table, linker, call, finder, done, parsed, record>>

(***************************************************************************)
(* Bounds of the exploration.                                              *)
(***************************************************************************)
\* the largest number of rows of a reference table (one more when the rows
\* share their name and house)
MaxRows == 2
\* the largest flat number of a query
MaxFlat == 3
\* the largest number of streets of a StreetsFinder used by itself
MaxStreets == 2

(***************************************************************************)
(* Python values.                                                          *)
(***************************************************************************)
\* None where a str is expected (Street.name, Address.house)
NoneStr == <<"<None>">>
\* None where a StreetType is expected
NoneType == "None"
\* None where an int is expected (Address.flat: int | None = None)
NoFlat == -1
\* None as a key
NoKey == 0

(***************************************************************************)
(* str operations.                                                         *)
(***************************************************************************)
\* the characters of the texts, in code point order
Puncts == <<" ", "-", ".", "/">>
Digits == <<"0", "1", "2", "3", "4", "5", "6", "7", "8", "9">>
Uppers == <<"A", "B", "C", "D", "E", "F", "G", "H", "I", "J", "K", "L", "M",
            "N", "O", "P", "Q", "R", "S", "T", "U", "V", "W", "X", "Y", "Z">>
Lowers == <<"a", "b", "c", "d", "e", "f", "g", "h", "i", "j", "k", "l", "m",
            "n", "o", "p", "q", "r", "s", "t", "u", "v", "w", "x", "y", "z">>
Chars == Puncts \o Digits \o Uppers \o Lowers

\* the code point order of the characters
OrdOf == [c \in {Chars[i] : i \in 1..Len(Chars)} |->
             CHOOSE i \in 1..Len(Chars) : Chars[i] = c]

Ord(c) == OrdOf[c]

\* the upper-case and the lower-case form of each character
UpperOf ==
    [c \in DOMAIN OrdOf |->
        IF \E i \in 1..Len(Lowers) : Lowers[i] = c
        THEN Uppers[CHOOSE i \in 1..Len(Lowers) : Lowers[i] = c]
        ELSE c]

LowerOf ==
    [c \in DOMAIN OrdOf |->
        IF \E i \in 1..Len(Uppers) : Uppers[i] = c
        THEN Lowers[CHOOSE i \in 1..Len(Uppers) : Uppers[i] = c]
        ELSE c]

UpperChar(c) == IF c \in DOMAIN UpperOf THEN UpperOf[c] ELSE c

LowerChar(c) == IF c \in DOMAIN LowerOf THEN LowerOf[c] ELSE c

\* str.upper
Upper(s) == [i \in 1..Len(s) |-> UpperChar(s[i])]

\* str.lower
Lower(s) == [i \in 1..Len(s) |-> LowerChar(s[i])]

\* s[lo:hi] with 1-based inclusive lo and exclusive hi
Slice(s, lo, hi) == [i \in 1..(hi - lo) |-> s[lo + i - 1]]

\* s has a character that is no whitespace
HasText(s) == \E i \in 1..Len(s) : s[i] # " "

\* the first and the last character of s that is no whitespace
FirstText(s) ==
    CHOOSE i \in 1..Len(s) : s[i] # " " /\ \A j \in 1..(i - 1) : s[j] = " "

LastText(s) ==
    CHOOSE i \in 1..Len(s) : s[i] # " " /\ \A j \in (i + 1)..Len(s) : s[j] = " "

\* str.strip: drops leading and trailing whitespace
Strip(s) ==
    IF HasText(s) THEN Slice(s, FirstText(s), LastText(s) + 1) ELSE <<>>

\* the first whitespace of t
FirstBlank(t) ==
    CHOOSE i \in 1..Len(t) : t[i] = " " /\ \A j \in 1..(i - 1) : t[j] # " "

\* str.split(): the maximal runs of non-whitespace characters
RECURSIVE Split(_)
RECURSIVE SplitStripped(_)
SplitStripped(t) ==
    IF t = <<>> THEN <<>>
    ELSE IF \A i \in 1..Len(t) : t[i] # " " THEN <<t>>
    ELSE <<Slice(t, 1, FirstBlank(t))>>
         \o Split(Slice(t, FirstBlank(t) + 1, Len(t) + 1))

Split(s) == SplitStripped(Strip(s))

\* str.join(" ", words)
RECURSIVE Join(_)
Join(words) ==
    IF words = <<>> THEN <<>>
    ELSE IF Len(words) = 1 THEN words[1]
    ELSE words[1] \o <<" ">> \o Join(Tail(words))

\* s.startswith(w)
StartsWith(s, w) == Len(w) <= Len(s) /\ Slice(s, 1, Len(w) + 1) = w

\* str.replace(old, new): every non-overlapping occurrence, left to right
RECURSIVE Replace(_, _, _)
Replace(s, old, new) ==
    IF s = <<>> \/ old = <<>> THEN s
    ELSE IF StartsWith(s, old)
         THEN new \o Replace(Slice(s, Len(old) + 1, Len(s) + 1), old, new)
         ELSE <<s[1]>> \o Replace(Tail(s), old, new)

\* a < b for str: lexicographic by code point
RECURSIVE StrLess(_, _)
StrLess(a, b) ==
    IF b = <<>> THEN FALSE
    ELSE IF a = <<>> THEN TRUE
    ELSE IF a[1] = b[1] THEN StrLess(Tail(a), Tail(b))
    ELSE Ord(a[1]) < Ord(b[1])

(***************************************************************************)
(* difflib (Python standard library), as used by StreetsFinder.find.       *)
(***************************************************************************)
\* a[i..i+k) = b[j..j+k)
Block(a, i, b, j, k) == \A d \in 0..(k - 1) : a[i + d] = b[j + d]

\* a block of size k starts at i in a[..ahi) and somewhere in b[blo..bhi)
BlockAt(a, i, b, blo, bhi, k) ==
    \E j \in blo..(bhi - k) : Block(a, i, b, j, k)

\* a[alo..ahi) and b[blo..bhi) share a block of size k
HasBlock(a, alo, ahi, b, blo, bhi, k) ==
    \E i \in alo..(ahi - k) : BlockAt(a, i, b, blo, bhi, k)

\* the size of the longest block of a[alo..ahi) x b[blo..bhi)
LongestSize(a, alo, ahi, b, blo, bhi) ==
    CHOOSE k \in 0..(ahi - alo) :
        /\ HasBlock(a, alo, ahi, b, blo, bhi, k)
        /\ \A m \in (k + 1)..(ahi - alo) : ~HasBlock(a, alo, ahi, b, blo, bhi, m)

\* the earliest start in a of a block of size k
FirstInA(a, alo, ahi, b, blo, bhi, k) ==
    CHOOSE i \in alo..(ahi - k) :
        /\ BlockAt(a, i, b, blo, bhi, k)
        /\ \A m \in alo..(i - 1) : ~BlockAt(a, m, b, blo, bhi, k)

\* the earliest start in b of a block of size k that starts at i in a
FirstInB(a, i, b, blo, bhi, k) ==
    CHOOSE j \in blo..(bhi - k) :
        /\ Block(a, i, b, j, k)
        /\ \A m \in blo..(j - 1) : ~Block(a, i, b, m, k)

\* the longest block that starts at i in a: the earliest in b
LongestFrom(a, i, b, blo, bhi, k) == <<i, FirstInB(a, i, b, blo, bhi, k), k>>

\* the longest block of size k: the one that starts earliest in a
LongestOfSize(a, alo, ahi, b, blo, bhi, k) ==
    LongestFrom(a, FirstInA(a, alo, ahi, b, blo, bhi, k), b, blo, bhi, k)

\* SequenceMatcher.find_longest_match without junk: the longest block
\* a[i..i+k) = b[j..j+k) in a[alo..ahi) x b[blo..bhi); of the longest, the
\* one that starts earliest in a, and of those the earliest in b
LongestMatch(a, alo, ahi, b, blo, bhi) ==
    LongestOfSize(a, alo, ahi, b, blo, bhi,
                  LongestSize(a, alo, ahi, b, blo, bhi))

\* the total size of SequenceMatcher.get_matching_blocks: the longest block
\* m and, recursively, the blocks to its left and to its right
RECURSIVE MatchSize(_, _, _, _, _, _)
RECURSIVE MatchSizeAround(_, _, _, _, _, _, _)
MatchSizeAround(a, alo, ahi, b, blo, bhi, m) ==
    IF m[3] = 0 THEN 0
    ELSE m[3] + MatchSize(a, alo, m[1], b, blo, m[2])
              + MatchSize(a, m[1] + m[3], ahi, b, m[2] + m[3], bhi)

MatchSize(a, alo, ahi, b, blo, bhi) ==
    IF alo >= ahi \/ blo >= bhi THEN 0
    ELSE MatchSizeAround(a, alo, ahi, b, blo, bhi,
                         LongestMatch(a, alo, ahi, b, blo, bhi))

\* SequenceMatcher.ratio() = 2.0 * M / T as the pair <<2M, T>> (1.0 if T = 0)
Ratio(a, b) ==
    IF Len(a) + Len(b) = 0 THEN <<1, 1>>
    ELSE <<2 * MatchSize(a, 1, Len(a) + 1, b, 1, Len(b) + 1), Len(a) + Len(b)>>

\* the similarity cutoff 0.55 of find, as CutoffNum / CutoffDen
CutoffNum == 55
CutoffDen == 100

\* ratio >= cutoff
WithinCutoff(r) == r[1] * CutoffDen >= CutoffNum * r[2]

\* (score1, x1) < (score2, x2), the order heapq.nlargest ranks the results by
RankLess(r1, x1, r2, x2) ==
    \/ r1[1] * r2[2] < r2[1] * r1[2]
    \/ r1[1] * r2[2] = r2[1] * r1[2] /\ StrLess(x1, x2)

\* the possibilities within the cutoff, given the score of each
Close(possibilities, score) ==
    {x \in possibilities : WithinCutoff(score[x])}

\* the best-ranked of the close possibilities, or none
Best(close, score) ==
    IF close = {} THEN <<>>
    ELSE <<CHOOSE x \in close : \A y \in close \ {x} :
               RankLess(score[y], y, score[x], x)>>

\* the possibilities scored against the word
BestScored(possibilities, score) ==
    Best(Close(possibilities, score), score)

\* difflib.get_close_matches(word, possibilities, n, 0.55)[0:1]: the
\* best-ranked possibility within the cutoff, or none (n >= 1)
BestMatch(word, possibilities) ==
    BestScored(possibilities, [x \in possibilities |-> Ratio(x, word)])

(***************************************************************************)
(* StreetType (src/src/AddresInfo/type.py, src/src/Rules/type_rules.py).   *)
(***************************************************************************)
\* the members of the enumeration
StreetTypes == {"BULVAR", "STREET", "LINIYA", "PEREULOK", "PLOSHAD", "PROEZD", "PROSPECT", "SHOSSE", "TERRITORIA"}

\* _StreetType.name: the full spelling
FullName(t) ==
    CASE t = "BULVAR" -> <<"b", "u", "l", "v", "a", "r">>
      [] t = "STREET" -> <<"u", "l", "i", "t", "s", "a">>
      [] t = "LINIYA" -> <<"l", "i", "n", "i", "y", "a">>
      [] t = "PEREULOK" -> <<"p", "e", "r", "e", "u", "l", "o", "k">>
      [] t = "PLOSHAD" -> <<"p", "l", "o", "s", "h", "a", "d">>
      [] t = "PROEZD" -> <<"p", "r", "o", "e", "z", "d">>
      [] t = "PROSPECT" -> <<"p", "r", "o", "s", "p", "e", "k", "t">>
      [] t = "SHOSSE" -> <<"s", "h", "o", "s", "s", "e">>
      [] t = "TERRITORIA" -> <<"t", "e", "r", "r", "i", "t", "o", "r", "i", "a">>

\* _StreetType.short_name: the short spelling
ShortName(t) ==
    CASE t = "BULVAR" -> <<"B", "-", "R">>
      [] t = "STREET" -> <<"U", "L", ".">>
      [] t = "LINIYA" -> <<"L", "N", ".">>
      [] t = "PEREULOK" -> <<"P", "E", "R", ".">>
      [] t = "PLOSHAD" -> <<"P", "L", ".">>
      [] t = "PROEZD" -> <<"P", "R", "-", "D">>
      [] t = "PROSPECT" -> <<"P", "R", "-", "K", "T">>
      [] t = "SHOSSE" -> <<"S", "H", ".">>
      [] t = "TERRITORIA" -> <<"T", "E", "R", ".">>

\* the words each alternative of TYPE_RULE accepts (a word in its normal
\* form, or one of the caseless abbreviations); "plsh" is the three-letter
\* abbreviation of PLOSHAD
Keywords(t) ==
    CASE t = "STREET" -> {<<"u", "l", "i", "t", "s", "a">>, <<"u", "l">>, <<"u">>}
      [] t = "SHOSSE" -> {<<"s", "h", "o", "s", "s", "e">>, <<"s", "h">>}
      [] t = "BULVAR" -> {<<"b", "u", "l", "v", "a", "r">>, <<"b", "-", "r">>, <<"b", "r">>, <<"b">>}
      [] t = "LINIYA" -> {<<"l", "i", "n", "i", "y", "a">>, <<"l", "-", "n">>, <<"l", "n">>, <<"l">>}
      [] t = "PEREULOK" -> {<<"p", "e", "r", "e", "u", "l", "o", "k">>, <<"p", "e", "r">>, <<"p", "r">>}
      [] t = "PROSPECT" -> {<<"p", "r", "o", "s", "p", "e", "k", "t">>, <<"p", "r", "-", "k", "t">>, <<"p", "r">>, <<"p", "r", "k", "t">>}
      [] t = "PROEZD" -> {<<"p", "r", "o", "e", "z", "d">>, <<"p", "r", "-", "d">>, <<"p", "r", "d">>, <<"p", "r">>}
      [] t = "PLOSHAD" -> {<<"p", "l", "o", "s", "h", "a", "d">>, <<"p", "l", "s", "h">>, <<"p", "l">>}
      [] t = "TERRITORIA" -> {<<"t", "e", "r", "r", "i", "t", "o", "r", "i", "a">>, <<"t", "e", "r">>}

\* the alternatives of TYPE_RULE in the order they are declared
TypeRuleOrder == <<"STREET", "SHOSSE", "BULVAR", "LINIYA", "PEREULOK", "PROSPECT", "PROEZD", "PLOSHAD", "TERRITORIA">>

\* a tokenizer that keeps "."
TypeWordKeepDot(text) == Lower(SelectSeq(text, LAMBDA c : c # " "))

\* the word token of a type text: the tokenizer drops "." and whitespace,
\* the predicates compare caseless
TypeWord(text) == Lower(SelectSeq(text, LAMBDA c : c \notin {".", " "}))

\* the alternatives of TYPE_RULE that accept the word
WordMatches(word) ==
    {i \in 1..Len(TypeRuleOrder) : word \in Keywords(TypeRuleOrder[i])}

\* the alternatives of TYPE_RULE that match the text
TypeMatches(text) == WordMatches(TypeWord(text))

\* the member of the first of the matching alternatives, or ValueError
FirstMember(matches) ==
    IF matches = {} THEN "ValueError"
    ELSE TypeRuleOrder[CHOOSE i \in matches : \A j \in matches : i <= j]

\* StreetType.fromStr: the member for a text, or ValueError
FromStr(text) == FirstMember(TypeMatches(text))

\* the alternatives of TYPE, the rule of the address grammar, in the order
\* they are declared
TypeOrder == <<"STREET", "SHOSSE", "BULVAR", "LINIYA", "PROSPECT", "PEREULOK", "PROEZD", "PLOSHAD", "TERRITORIA">>

\* the alternatives of TYPE that match the text
GrammarMatches(text) ==
    {i \in 1..Len(TypeOrder) : TypeWord(text) \in Keywords(TypeOrder[i])}

\* the value of the Type fact of the address grammar: the short name the
\* matching alternative of TYPE is interpreted as
TypeFact(text) ==
    ShortName(TypeOrder[CHOOSE i \in GrammarMatches(text) :
                            \A j \in GrammarMatches(text) : i <= j])

\* Address.fromStr on the type word of an address: StreetType.fromStr of
\* the Type fact
GrammarType(text) ==
    IF GrammarMatches(text) = {} THEN "ValueError"
    ELSE FromStr(TypeFact(text))

(***************************************************************************)
(* Street and Address (src/src/AddresInfo).                                *)
(***************************************************************************)
\* Street(full_name, type_); isNone marks a None passed for the object
Street(name, type) == [isNone |-> FALSE, name |-> name, type |-> type]

\* None passed as the street
NoStreet == [isNone |-> TRUE, name |-> NoneStr, type |-> NoneType]

\* Address(street, house, flat)
Address(street, house, flat) ==
    [isNone |-> FALSE, street |-> street, house |-> house, flat |-> flat]

\* None passed as the address
NoAddress ==
    [isNone |-> TRUE, street |-> NoStreet, house |-> NoneStr, flat |-> NoFlat]

\* Street.copy
StreetCopy(st) == Street(st.name, st.type)

\* Address.copy
AddressCopy(a) == Address(StreetCopy(a.street), a.house, a.flat)

(***************************************************************************)
(* StreetsFinder (src/src/Linker/streetsFinder.py).  The bank `data` is a  *)
(* function from spellings to lists of Streets.                            *)
(***************************************************************************)
\* src.AbbrsInfo.Abbreviations: a word and the list of its variants; the
\* word "B" stands for an abbreviated word, "BO" for its full form
Abbreviations == [w \in {<<"B">>} |-> <<(<<"B", "O">>)>>]

\* the empty dict
EmptyBank == [k \in {} |-> <<>>]

InList(x, list) == \E i \in 1..Len(list) : list[i] = x

\* _add that does not look for the value in the list
AddAlways(data, key, val) ==
    IF key \in DOMAIN data
    THEN [data EXCEPT ![key] = Append(@, val)]
    ELSE [k \in DOMAIN data \cup {key} |->
             IF k = key THEN <<val>> ELSE data[k]]

\* _add of append
Add(data, key, val) ==
    IF key \in DOMAIN data
    THEN IF InList(val, data[key]) THEN data
         ELSE [data EXCEPT ![key] = Append(@, val)]
    ELSE [k \in DOMAIN data \cup {key} |->
             IF k = key THEN <<val>> ELSE data[k]]

\* the spellings derived from one word of a name, one per variant
RECURSIVE VariantSpellings(_, _, _)
VariantSpellings(name, word, variants) ==
    IF variants = <<>> THEN <<>>
    ELSE <<Join(Split(Replace(name, word, Head(variants))))>>
         \o VariantSpellings(name, word, Tail(variants))

\* the spellings derived from the words of a name, in the order of append
RECURSIVE WordSpellings(_, _)
WordSpellings(name, words) ==
    IF words = <<>> THEN <<>>
    ELSE (IF Head(words) \in DOMAIN Abbreviations
          THEN VariantSpellings(name, Head(words), Abbreviations[Head(words)])
          ELSE <<>>)
         \o WordSpellings(name, Tail(words))

RECURSIVE AddAll(_, _, _)
AddAll(data, keys, val) ==
    IF keys = <<>> THEN data
    ELSE AddAll(Add(data, Head(keys), val), Tail(keys), val)

\* StreetsFinder.append
FinderAppend(data, street) ==
    AddAll(data, <<street.name>> \o WordSpellings(street.name, Split(street.name)),
           street)

\* the list without its first element equal to x: del v[v.index(x)]
RECURSIVE DelFirst(_, _)
DelFirst(list, x) ==
    IF list = <<>> THEN <<>>
    ELSE IF Head(list) = x THEN Tail(list)
    ELSE <<Head(list)>> \o DelFirst(Tail(list), x)

\* remove that drops every spelling that lists the street
FinderRemoveSpellings(data, street) ==
    [k \in {x \in DOMAIN data : ~InList(street, data[x])} |-> data[k]]

\* remove that keeps a spelling whose list becomes empty
FinderRemoveKeepEmpty(data, street) ==
    [k \in DOMAIN data |->
        IF InList(street, data[k]) THEN DelFirst(data[k], street)
        ELSE data[k]]

\* StreetsFinder.remove: a spelling that lists the street alone is left
\* out, the street is deleted from the other lists that hold it
FinderRemove(data, street) ==
    [k \in {x \in DOMAIN data :
               ~InList(street, data[x]) \/ Len(data[x]) # 1} |->
        IF InList(street, data[k]) THEN DelFirst(data[k], street)
        ELSE data[k]]

\* the first Street of the list whose type is the type asked for
RECURSIVE FirstOfType(_, _)
FirstOfType(list, type) ==
    IF list = <<>> THEN [none |-> TRUE, streets |-> <<>>]
    ELSE IF Head(list).type = type
         THEN [none |-> FALSE, streets |-> <<Head(list)>>]
         ELSE FirstOfType(Tail(list), type)

\* the tail of find: the Streets listed under the spelling matched
FindVariants(variants, key) ==
    IF Len(variants) = 1 \/ key.type = NoneType
    THEN [none |-> FALSE, streets |-> variants]
    ELSE FirstOfType(variants, key.type)

\* find after get_close_matches
FindMatch(data, key, match) ==
    IF match = <<>> THEN [none |-> TRUE, streets |-> <<>>]
    ELSE FindVariants(data[match[1]], key)

\* StreetsFinder.find with CaseType "upper": a list of Streets, or None
Find(data, key) ==
    FindMatch(data, key, BestMatch(Upper(Strip(key.name)), DOMAIN data))

(***************************************************************************)
(* Linker (src/src/Linker/linker.py).                                      *)
(***************************************************************************)
\* the columns load requires
RequiredColumns == {"Type", "Name", "House", "Flat_start", "Flat_end", "Key"}

\* the assert of load without the check of the Key column
ColumnsPresentNoKey(columns) ==
    /\ "Type" \in columns
    /\ "Name" \in columns
    /\ "House" \in columns
    /\ "Flat_start" \in columns
    /\ "Flat_end" \in columns

\* the assert of load
ColumnsPresent(columns) ==
    /\ "Type" \in columns
    /\ "Name" \in columns
    /\ "House" \in columns
    /\ "Flat_start" \in columns
    /\ "Flat_end" \in columns
    /\ "Key" \in columns

\* __parse_metadata: the bank of the rows, or ValueError from fromStr
RECURSIVE ParseMetadata(_, _)
\* the first row, whose Type fromStr read as type_, and the rows after it
ParseRow(rows, data, type_) ==
    IF type_ = "ValueError"
    THEN [exc |-> "ValueError", data |-> data]
    ELSE ParseMetadata(Tail(rows),
             FinderAppend(data, Street(Head(rows).Name, type_)))

ParseMetadata(rows, data) ==
    IF rows = <<>> THEN [exc |-> "", data |-> data]
    ELSE ParseRow(rows, data, FromStr(Head(rows).Type))

\* no Linker
NoLinker == [built |-> FALSE, df |-> <<>>, columns |-> <<>>, data |-> EmptyBank]

\* load after __parse_metadata
LoadParsed(t, meta) ==
    IF meta.exc # ""
    THEN [exc |-> meta.exc, linker |-> NoLinker]
    ELSE [exc |-> "",
          linker |-> [built |-> TRUE, df |-> t.rows, columns |-> t.order,
                      data |-> meta.data]]

\* Linker.load: the outcome and the Linker it returns
LoadResult(t) ==
    IF ~ColumnsPresent(t.columns)
    THEN [exc |-> "AssertionError", linker |-> NoLinker]
    ELSE LoadParsed(t, ParseMetadata(t.rows, EmptyBank))

\* [v.Key for _, v in variants.iterrows()]
RECURSIVE KeysOf(_)
KeysOf(rows) ==
    IF rows = <<>> THEN <<>> ELSE <<Head(rows).Key>> \o KeysOf(Tail(rows))

\* __filter_by_flat_range with an exclusive upper end
FilterByFlatRangeOpen(flat, variants) ==
    KeysOf(SelectSeq(variants,
               LAMBDA v : v.Flat_start <= flat /\ flat < v.Flat_end))

\* __filter_by_flat_range
FilterByFlatRange(flat, variants) ==
    KeysOf(SelectSeq(variants,
               LAMBDA v : v.Flat_start <= flat /\ flat <= v.Flat_end))

\* __match_with_db that does not filter by the street type
MatchWithDbNoType(df, address, require_flat_check) ==
    LET variants == SelectSeq(df, LAMBDA r :
                        /\ r.Name = Upper(address.street.name)
                        /\ r.House = Upper(address.house))
    IN  IF address.flat # NoFlat /\ require_flat_check /\ Len(variants) > 0
        THEN KeysOf(SelectSeq(variants, LAMBDA v :
                 v.Flat_start <= address.flat /\ address.flat <= v.Flat_end))
        ELSE KeysOf(variants)

\* __match_with_db that never checks the flat
MatchWithDbNoFlat(df, address, require_flat_check) ==
    KeysOf(SelectSeq(df, LAMBDA r :
        /\ r.Name = Upper(address.street.name)
        /\ r.House = Upper(address.house)
        /\ address.street.type # NoneType
              => r.Type = Upper(ShortName(address.street.type))))

\* __match_with_db that does not compare the house
MatchWithDbNoHouse(df, address, require_flat_check) ==
    LET variants == SelectSeq(df, LAMBDA r :
                        /\ r.Name = Upper(address.street.name)
                        /\ (address.street.type # NoneType =>
                               r.Type = Upper(ShortName(address.street.type))))
    IN  IF address.flat # NoFlat /\ require_flat_check /\ Len(variants) > 0
        THEN FilterByFlatRange(address.flat, variants)
        ELSE KeysOf(variants)

\* __match_with_db that checks the flat range whatever the caller asks
MatchWithDbFlatAlways(df, address, require_flat_check) ==
    LET variants == SelectSeq(df, LAMBDA r :
                        /\ r.Name = Upper(address.street.name)
                        /\ r.House = Upper(address.house)
                        /\ (address.street.type # NoneType =>
                               r.Type = Upper(ShortName(address.street.type))))
    IN  IF address.flat # NoFlat /\ Len(variants) > 0
        THEN FilterByFlatRange(address.flat, variants)
        ELSE KeysOf(variants)

\* __match_with_db with CaseType "upper"
MatchWithDb(df, address, require_flat_check) ==
    LET byName == SelectSeq(df, LAMBDA r :
                      /\ r.Name = Upper(address.street.name)
                      /\ r.House = Upper(address.house))
        variants == IF address.street.type # NoneType
                    THEN SelectSeq(byName, LAMBDA r :
                             r.Type = Upper(ShortName(address.street.type)))
                    ELSE byName
    IN  IF address.flat # NoFlat /\ require_flat_check /\ Len(variants) > 0
        THEN FilterByFlatRange(address.flat, variants)
        ELSE KeysOf(variants)

Return(key) == [kind |-> "return", key |-> key, exc |-> ""]
Raise(exc) == [kind |-> "raise", key |-> 0, exc |-> exc]

\* tmp_addr = address; tmp_addr.street = street: the caller's Address is
\* the one written to
SubstituteInPlace(address, street) ==
    [caller |-> [address EXCEPT !.street = street],
     tmp |-> [address EXCEPT !.street = street]]

\* tmp_addr = address.copy(); tmp_addr.street = street: the caller's Address
\* and the working Address after the two statements
Substitute(address, street) ==
    [caller |-> address,
     tmp |-> [AddressCopy(address) EXCEPT !.street = street]]

\* the Streets of `variants` tested against the rows, with their matches
MatchesOf(lk, address, variants, require_flat_check) ==
    [i \in 1..Len(variants) |->
        [street |-> variants[i],
         matches |-> MatchWithDb(lk.df, Substitute(address, variants[i]).tmp,
                                 require_flat_check)]]

\* the caller's Address after every Street of `variants` was put in its
\* place in turn
RECURSIVE CallerAfter(_, _)
CallerAfter(address, variants) ==
    IF variants = <<>> THEN address
    ELSE CallerAfter(Substitute(address, Head(variants)).caller,
                     Tail(variants))

\* Collect that takes the first match of every variant that has a match
RECURSIVE CollectAny(_)
CollectAny(tested) ==
    IF tested = <<>> THEN <<>>
    ELSE (IF Len(Head(tested).matches) >= 1
          THEN <<Head(tested).matches[1]>> ELSE <<>>)
         \o CollectAny(Tail(tested))

\* the keys of the variants that have exactly one match
RECURSIVE Collect(_)
Collect(tested) ==
    IF tested = <<>> THEN <<>>
    ELSE (IF Len(Head(tested).matches) = 1
          THEN <<Head(tested).matches[1]>> ELSE <<>>)
         \o Collect(Tail(tested))

\* ByCount that takes the first key when there are several
ByCountFirst(keys) ==
    IF Len(keys) = 0 THEN Raise("NotInDBException") ELSE Return(keys[1])

\* match len(...): case 0 / case 1 / case _
ByCount(keys) ==
    IF Len(keys) = 0 THEN Raise("NotInDBException")
    ELSE IF Len(keys) = 1 THEN Return(keys[1])
    ELSE Raise("UnresolvedAmbigiuty")

\* link after the rows are matched: match len(...) on the matches of the
\* one variant, or on the keys collected from the several
LinkTested(found, tested, after) ==
    [outcome |-> IF Len(tested) = 1 THEN ByCount(tested[1].matches)
                 ELSE ByCount(Collect(tested)),
     findCalled |-> TRUE, found |-> found, tested |-> tested,
     after |-> after]

\* link after find
LinkFound(lk, address, require_flat_check, found) ==
    IF found.none \/ found.streets = <<>>
    THEN [outcome |-> Raise("NormalizationException"),
          findCalled |-> TRUE, found |-> found, tested |-> <<>>,
          after |-> address]
    ELSE LinkTested(found,
             MatchesOf(lk, address, found.streets, require_flat_check),
             CallerAfter(address, found.streets))

\* Linker.link: the outcome, whether find was called and what it returned,
\* and the Streets matched against the rows
LinkResult(lk, address, require_flat_check) ==
    IF address.isNone \/ address.street.isNone \/ address.house = NoneStr
    THEN [outcome |-> Raise("AssertionError"), findCalled |-> FALSE,
          found |-> [none |-> TRUE, streets |-> <<>>], tested |-> <<>>,
          after |-> address]
    ELSE IF address.street.name = NoneStr
    THEN \* key.name.strip() in find
         [outcome |-> Raise("AttributeError"), findCalled |-> TRUE,
          found |-> [none |-> TRUE, streets |-> <<>>], tested |-> <<>>,
          after |-> address]
    ELSE LinkFound(lk, address, require_flat_check,
                   Find(lk.data, address.street))

\* the exceptions that derive from LinkerException
LinkerExceptions ==
    {"LinkerException", "NotInDBException", "NoSuitableFlatRange",
     "UnresolvedAmbigiuty", "NormalizationException"}

\* the except clause of getkey
Caught(r, default_value) ==
    IF r.outcome.kind = "raise" /\ r.outcome.exc \in LinkerExceptions
    THEN [r EXCEPT !.outcome = Return(default_value)]
    ELSE r

\* Linker.getkey
GetKeyResult(lk, address, default_value, require_flat_check) ==
    Caught(LinkResult(lk, address, require_flat_check), default_value)

\* the Address getvalue builds from the three values it takes from the row
AddressOfValues(type_, name, house) ==
    IF FromStr(type_) = "ValueError"
    THEN [outcome |-> Raise("ValueError"), value |-> NoAddress]
    ELSE [outcome |-> Return(0),
          value |-> Address(Street(name, FromStr(type_)), house, NoFlat)]

\* type_, name, house, _, _, _ = rows.iloc[0]: the values of the row are
\* taken by position, in the order of the columns of the frame
Unpacked(columns, row) ==
    IF Len(columns) # Cardinality(RequiredColumns)
    THEN [outcome |-> Raise("ValueError"), value |-> NoAddress]
    ELSE AddressOfValues(row[columns[1]], row[columns[2]], row[columns[3]])

\* getvalue after the rows of the key are selected
GetValueRows(columns, rows, default_value) ==
    IF Len(rows) # 1
    THEN [outcome |-> Return(0), value |-> default_value]
    ELSE Unpacked(columns, rows[1])

\* Linker.getvalue: the outcome and the Address returned
GetValueResult(lk, key, default_value) ==
    GetValueRows(lk.columns, SelectSeq(lk.df, LAMBDA r : r.Key = key),
                 default_value)

\* self.df after __match_with_db narrowed it to the rows of the name and
\* the house
DfAfterMatchNarrowed(df, address, require_flat_check) ==
    SelectSeq(df, LAMBDA r :
        /\ r.Name = Upper(address.street.name)
        /\ r.House = Upper(address.house))

\* self.df after __match_with_db: the rows selected are bound to the local
\* `variants`, self.df is not assigned
DfAfterMatch(df, address, require_flat_check) == df

\* the Linker after link matched the Streets of `variants` against the rows
RECURSIVE LinkerAfter(_, _, _, _)
LinkerAfter(lk, address, variants, require_flat_check) ==
    IF variants = <<>> THEN lk
    ELSE LinkerAfter(
             [lk EXCEPT !.df = DfAfterMatch(lk.df,
                                   Substitute(address, Head(variants)).tmp,
                                   require_flat_check)],
             address, Tail(variants), require_flat_check)

\* StreetsFinder.find called by itself: TypeError for a key that is no
\* Street, AttributeError from key.name.strip() for a name that is None
FindResult(data, key) ==
    IF key.isNone
    THEN [outcome |-> Raise("TypeError"),
          found |-> [none |-> TRUE, streets |-> <<>>]]
    ELSE IF key.name = NoneStr
    THEN [outcome |-> Raise("AttributeError"),
          found |-> [none |-> TRUE, streets |-> <<>>]]
    ELSE [outcome |-> Return(0), found |-> Find(data, key)]

\* get_variants after get_close_matches
VariantsOfMatch(data, match) ==
    IF match = <<>> THEN <<>> ELSE data[match[1]]

\* StreetsFinder.get_variants with CaseType "upper"
GetVariants(data, key) ==
    VariantsOfMatch(data, BestMatch(Upper(Strip(key.name)), DOMAIN data))

\* StreetsFinder.get_variants called by itself
GetVariantsResult(data, key) ==
    IF key.isNone
    THEN [outcome |-> Raise("TypeError"),
          found |-> [none |-> TRUE, streets |-> <<>>]]
    ELSE IF key.name = NoneStr
    THEN [outcome |-> Raise("AttributeError"),
          found |-> [none |-> TRUE, streets |-> <<>>]]
    ELSE [outcome |-> Return(0),
          found |-> [none |-> FALSE, streets |-> GetVariants(data, key)]]

(***************************************************************************)
(* The expansion of a raw address before it is parsed                      *)
(* (src/src/OutputWorker/improved_worker.py).                              *)
(***************************************************************************)
\* str.isdigit
IsDigit(part) ==
    /\ part # <<>>
    /\ \A i \in 1..Len(part) : \E d \in 1..Len(Digits) : Digits[d] = part[i]

\* replacements of _expand_address_with_rules, in the order of the dict
Replacements ==
    <<<<<<"U", "L", "I", "T", "S", "A">>,
        <<"U", "L", ".">>>>,
      <<<<"U", "L", " ">>,
        <<"U", "L", ".">>>>,
      <<<<"U", "L", ".">>,
        <<"U", "L", ".">>>>,
      <<<<"P", "R", "O", "S", "P", "E", "K", "T">>,
        <<"P", "R", "-", "K", "T">>>>,
      <<<<"P", "R", "O", "S", "P">>,
        <<"P", "R", "-", "K", "T">>>>,
      <<<<"P", "R", "-", "T">>,
        <<"P", "R", "-", "K", "T">>>>,
      <<<<"P", "R", "O", "E", "Z", "D">>,
        <<"P", "R", "-", "D">>>>,
      <<<<"P", "R", ".">>,
        <<"P", "R", "-", "D">>>>,
      <<<<"B", "U", "L", "V", "A", "R">>,
        <<"B", "-", "R">>>>,
      <<<<"B", "U", "L">>,
        <<"B", "-", "R">>>>,
      <<<<"P", "L", "O", "S", "H", "A", "D">>,
        <<"P", "L", ".">>>>,
      <<<<"P", "L", " ">>,
        <<"P", "L", ".">>>>,
      <<<<"T", "E", "R", "R", "I", "T", "O", "R", "I", "A">>,
        <<"T", "E", "R", ".">>>>,
      <<<<"T", "E", "R", "R", "I", "T">>,
        <<"T", "E", "R", ".">>>>,
      <<<<"T", "E", "R", " ">>,
        <<"T", "E", "R", ".">>>>,
      <<<<"T", "E", "R", ".">>,
        <<"T", "E", "R", ".">>>>,
      <<<<"P", "O", "D", "S", "T", "A", "N", "T", "S", "I", "A">>,
        <<"P", "O", "D", "S", "T", ".">>>>,
      <<<<"P", "O", "D", "S", "T">>,
        <<"P", "O", "D", "S", "T", ".">>>>,
      <<<<"P", "O", "D", "S", "T", ".">>,
        <<"P", "O", "D", "S", "T", ".">>>>>>

\* SPECIAL_RULES, in the order of the dict
SpecialRules ==
    <<<<<<"T", "R", "U", "B", "I", "T", "S", "Y", "N", "A">>,
        <<"I", "M", "E", "N", "I", " ", "P", "R", "O", "T", "O", "I", "E", "R", "E", "Y", "A", " ", "G", "E", "O", "R", "G", "I", "Y", "A", " ", "T", "R", "U", "B", "I", "T", "S", "Y", "N", "A">>>>,
      <<<<"O", "K", "I", "N", "I", "N", "A">>,
        <<"P", "A", "R", "T", "I", "Z", "A", "N", "A", " ", "O", "K", "I", "N", "I", "N", "A">>>>,
      <<<<"B", "E", "L", "Y", "A", "E", "V", "A">>,
        <<"K", "O", "S", "M", "O", "N", "A", "V", "T", "A", " ", "B", "E", "L", "Y", "A", "E", "V", "A">>>>,
      <<<<"L", "I", "B", "K", "N", "E", "H", "T", "A">>,
        <<"K", "A", "R", "L", "A", " ", "L", "I", "B", "K", "N", "E", "H", "T", "A">>>>,
      <<<<"L", "U", "K", "S", "E", "M", "B", "U", "R", "G">>,
        <<"R", "O", "Z", "Y", " ", "L", "U", "K", "S", "E", "M", "B", "U", "R", "G">>>>,
      <<<<"R", "O", "Z", "Y">>,
        <<"R", "O", "Z", "Y", " ", "L", "U", "K", "S", "E", "M", "B", "U", "R", "G">>>>,
      <<<<"G", "O", "R", "K", "O", "G", "O">>,
        <<"M", "A", "K", "S", "I", "M", "A", " ", "G", "O", "R", "K", "O", "G", "O">>>>,
      <<<<"B", "E", "L", "O", "V", "A">>,
        <<"K", "O", "M", "A", "N", "D", "A", "R", "M", "A", " ", "B", "E", "L", "O", "V", "A">>>>,
      <<<<"P", "E", "R", "T", "S", "A">>,
        <<"S", "E", "R", "G", "E", "Y", "A", " ", "P", "E", "R", "T", "S", "A">>>>,
      <<<<"P", "I", "T", "O", "M", "N", "I", "K", "A">>,
        <<"G", "O", "R", "O", "D", "S", "K", "O", "G", "O", " ", "P", "I", "T", "O", "M", "N", "I", "K", "A">>>>,
      <<<<"S", "E", "R", "O", "V", "K", "I">>,
        <<"N", "A", "B", "E", "R", "E", "Z", "H", "N", "A", "Y", "A", " ", "S", "E", "R", "O", "V", "K", "I">>>>,
      <<<<"U", "N", "G">>,
        <<"S", "O", "L", "O", "V", "E", "T", "S", "K", "I", "H", " ", "U", "N", "G">>>>,
      <<<<"U", "Z", "H", "N", "A", "Y", "A">>,
        <<"P", "O", "D", "S", "T", "A", "N", "T", "S", "I", "I", " ", "U", "Z", "H", "N", "A", "Y", "A">>>>>>

\* old in part
Contains(part, old) ==
    \E i \in 1..(Len(part) - Len(old) + 1) : Slice(part, i, i + Len(old)) = old

\* for old, new in replacements.items(): address = address.replace(old, new)
RECURSIVE ApplyReplacements(_, _)
ApplyReplacements(address, pairs) ==
    IF pairs = <<>> THEN address
    ELSE ApplyReplacements(Replace(address, Head(pairs)[1], Head(pairs)[2]),
                           Tail(pairs))

\* the last part that is a number, or the empty text for None
RECURSIVE LastNumber(_)
LastNumber(parts) ==
    IF parts = <<>> THEN <<>>
    ELSE IF IsDigit(parts[Len(parts)]) THEN parts[Len(parts)]
    ELSE LastNumber(SubSeq(parts, 1, Len(parts) - 1))

\* the text a special rule puts in the place of a word, or the word
RECURSIVE ApplyRules(_, _)
ApplyRules(part, rules) ==
    IF rules = <<>> THEN part
    ELSE IF Contains(part, Head(rules)[1]) THEN Head(rules)[2]
    ELSE ApplyRules(part, Tail(rules))

\* result_parts of the words of the address
ResultParts(parts) == [i \in 1..Len(parts) |-> ApplyRules(parts[i], SpecialRules)]

\* the prefix of a territory
TerritoryPrefix == <<"T", "E", "R", ".">>

\* the expanded address with the house number put back at its end
WithHouseNumber(expanded, house_number) ==
    IF house_number = <<>> THEN expanded
    ELSE expanded \o <<" ">> \o house_number

\* the words of the address expanded, with the territory prefix put back
ExpandWords(address) ==
    IF StartsWith(address, TerritoryPrefix)
    THEN TerritoryPrefix \o <<" ">>
         \o Join(ResultParts(Split(Slice(address, Len(TerritoryPrefix) + 1,
                                         Len(address) + 1))))
    ELSE Join(ResultParts(Split(address)))

\* the expansion of the parts once the house number is known
ExpandHouse(parts, house_number) ==
    WithHouseNumber(
        ExpandWords(Join(SelectSeq(parts, LAMBDA p :
                             house_number = <<>> \/ p # house_number))),
        house_number)

\* the expansion of the parts of the address
ExpandParts(parts) ==
    IF Len(parts) = 1 /\ IsDigit(parts[1]) THEN parts[1]
    ELSE ExpandHouse(parts, LastNumber(parts))

\* ImprovedDatabaseOutputWorker._expand_address_with_rules
ExpandAddressWithRules(address) ==
    IF address = NoneStr \/ address = <<>> THEN <<>>
    ELSE ExpandParts(Split(ApplyReplacements(Upper(address), Replacements)))

(***************************************************************************)
(* The tokenizer of the address grammar                                    *)
(* (src/src/Rules/tokenizer_rules.py).                                     *)
(***************************************************************************)
\* the characters of [а-яё] and [А-ЯЁ]
Letters ==
    {Uppers[i] : i \in 1..Len(Uppers)} \cup {Lowers[i] : i \in 1..Len(Lowers)}

\* the characters of \d
DigitChars == {Digits[i] : i \in 1..Len(Digits)}

\* where the run of characters of the set that starts at i stops
RunEnd(text, i, set) ==
    IF \A j \in i..Len(text) : text[j] \in set THEN Len(text) + 1
    ELSE CHOOSE j \in i..Len(text) :
             text[j] \notin set /\ \A k \in i..(j - 1) : text[k] \in set

\* "-" and a letter at i: the tail of AlphaNumericWord and of DashedWord
DashLetter(text, i) ==
    i + 1 <= Len(text) /\ text[i] = "-" /\ text[i + 1] \in Letters

\* a token with its span
Token(type, text, start, stop) ==
    [type |-> type, value |-> Slice(text, start, stop),
     start |-> start, stop |-> stop]

\* the match of TOKENIZER_RULES at i, the rules tried in their order; a
\* character no rule matches is skipped
TokenAt(text, i) ==
    IF text[i] \in DigitChars
    THEN IF RunEnd(text, i, DigitChars) - i <= 3
            /\ DashLetter(text, RunEnd(text, i, DigitChars))
         THEN Token("AlphaNumericWord", text, i,
                    RunEnd(text, RunEnd(text, i, DigitChars) + 1, Letters))
         ELSE Token("INT", text, i, RunEnd(text, i, DigitChars))
    ELSE IF text[i] \in Letters
    THEN IF DashLetter(text, RunEnd(text, i, Letters))
         THEN Token("DashedWord", text, i,
                    RunEnd(text, RunEnd(text, i, Letters) + 1, Letters))
         ELSE Token("RU", text, i, RunEnd(text, i, Letters))
    ELSE IF text[i] \in {"-", "/"} THEN Token("PUNCT", text, i, i + 1)
    ELSE Token("skip", text, i, i + 1)

\* the tokens of the text from i on
RECURSIVE TokensFrom(_, _)
TokensFrom(text, i) ==
    IF i > Len(text) THEN <<>>
    ELSE IF TokenAt(text, i).type = "skip" THEN TokensFrom(text, i + 1)
    ELSE <<TokenAt(text, i)>> \o TokensFrom(text, TokenAt(text, i).stop)

\* Tokenizer()(text)
Tokenize(text) == TokensFrom(text, 1)

\* the values of the INT tokens of a text, in their order
Numbers(text) ==
    [i \in 1..Len(SelectSeq(Tokenize(text), LAMBDA t : t.type = "INT")) |->
        SelectSeq(Tokenize(text), LAMBDA t : t.type = "INT")[i].value]

(***************************************************************************)
(* The address grammar (src/src/Rules/address_rules.py) and                *)
(* Address.fromStr (src/src/AddresInfo/address.py).  A parse is computed   *)
(* on the tokens of the text; a predicate sees the lower-case word of a    *)
(* token.  The words are those of the texts explored: these hold no        *)
(* country, region, person or "imeni" word.                                *)
(***************************************************************************)
\* DOM_WORD: normalized("dom"), caseless("d")
DomWords == {<<"d", "o", "m">>, <<"d">>}

\* KVARTIRA_WORD: normalized("kvartira"), caseless("kv")
KvartiraWords == {<<"k", "v", "a", "r", "t", "i", "r", "a">>, <<"k", "v">>}

\* CITY_WORD: normalized("gorod"), normalized("gor"), caseless("g")
CityWords == {<<"g", "o", "r", "o", "d">>, <<"g", "o", "r">>, <<"g">>}

\* CITY_NAME_PREDICATE: normalized("cherepovets")
CityNames == {<<"c", "h", "e", "r", "e", "p", "o", "v", "e", "t", "s">>}

\* KORPUS_WORD: caseless_pipeline(["korpus", "korp", "kor", "k"])
KorpusWords == {<<"k", "o", "r", "p", "u", "s">>, <<"k", "o", "r", "p">>, <<"k", "o", "r">>, <<"k">>}

\* STROENIE_WORD: caseless_pipeline(["stroenie", "str", "s"])
StroenieWords == {<<"s", "t", "r", "o", "e", "n", "i", "e">>, <<"s", "t", "r">>, <<"s">>}

\* HOUSE_LETTER: the letters a house number may end with
HouseLetters == {"a", "b", "v", "g", "d", "e", "z", "i"}

\* TERRITORY_PREFIX: dictionary({"ter.", "territoria", "territor", "ter"})
TerritoryWords == {<<"t", "e", "r", ".">>, <<"t", "e", "r", "r", "i", "t", "o", "r", "i", "a">>, <<"t", "e", "r", "r", "i", "t", "o", "r">>, <<"t", "e", "r">>}

\* the words the morphological dictionary tags NOUN: the words that name a
\* street in the texts explored, and the nouns among the keywords
Nouns ==
    {<<"a", "b">>,
     <<"b", "o">>,
     <<"u", "l", "i", "t", "s", "a">>,
     <<"s", "h", "o", "s", "s", "e">>,
     <<"b", "u", "l", "v", "a", "r">>,
     <<"l", "i", "n", "i", "y", "a">>,
     <<"p", "e", "r", "e", "u", "l", "o", "k">>,
     <<"p", "r", "o", "s", "p", "e", "k", "t">>,
     <<"p", "r", "o", "e", "z", "d">>,
     <<"p", "l", "o", "s", "h", "a", "d">>,
     <<"t", "e", "r", "r", "i", "t", "o", "r", "i", "a">>,
     <<"d", "o", "m">>,
     <<"k", "v", "a", "r", "t", "i", "r", "a">>,
     <<"g", "o", "r", "o", "d">>,
     <<"k", "o", "r", "p", "u", "s">>,
     <<"s", "t", "r", "o", "e", "n", "i", "e">>,
     <<"c", "h", "e", "r", "e", "p", "o", "v", "e", "t", "s">>}

\* the words the morphological dictionary tags ADJF
Adjfs == {<<"a", "j">>}

\* the street types NOT_STREET_TYPE_OR_OTHER_KEYWORD lists
ListedTypes ==
    {"STREET", "SHOSSE", "BULVAR", "LINIYA", "PEREULOK", "PROSPECT", "PROEZD",
     "PLOSHAD"}

\* NOT_STREET_TYPE_OR_OTHER_KEYWORD on a word
NotStreetTypeOrOtherKeyword(word) ==
    ~ \/ \E t \in ListedTypes : word \in Keywords(t)
      \/ word \in DomWords
      \/ word \in KvartiraWords
      \/ word \in CityWords
      \/ word \in CityNames

\* NOUN_BUT_NO_STREET_TYPE on a word
NounButNoStreetType(word) ==
    word \in Nouns /\ NotStreetTypeOrOtherKeyword(word)

\* ADJF_BUT_NO_STREET_TYPE on a word
AdjfButNoStreetType(word) ==
    word \in Adjfs /\ NotStreetTypeOrOtherKeyword(word)

\* the lower-case word of token i
Word(toks, i) == Lower(toks[i].value)

\* token i is a word of the set
WordAt(toks, i, words) ==
    i <= Len(toks) /\ toks[i].type = "RU" /\ Word(toks, i) \in words

\* int() of a run of digits
RECURSIVE IntValue(_)
IntValue(value) ==
    IF value = <<>> THEN 0
    ELSE 10 * IntValue(SubSeq(value, 1, Len(value) - 1))
         + (CHOOSE d \in 0..9 : Digits[d + 1] = value[Len(value)])

\* the text of the tokens lo..hi-1: their values, with a space where two
\* tokens do not touch
RECURSIVE JoinTokens(_, _, _)
JoinTokens(toks, lo, hi) ==
    IF lo >= hi THEN <<>>
    ELSE IF lo + 1 = hi THEN toks[lo].value
    ELSE toks[lo].value
         \o (IF toks[lo].stop = toks[lo + 1].start THEN <<>> ELSE <<" ">>)
         \o JoinTokens(toks, lo + 1, hi)

\* NON_NEGATIVE_INT at i
NonNegativeInt(toks, i) ==
    i <= Len(toks) /\ toks[i].type = "INT" /\ IntValue(toks[i].value) <= 1001

\* INDEX at i
IndexAt(toks, i) ==
    /\ i <= Len(toks)
    /\ toks[i].type = "INT"
    /\ IntValue(toks[i].value) >= 100000
    /\ IntValue(toks[i].value) <= 999999

\* where a CITY that starts at i stops
CityStops(toks, i) ==
    (IF WordAt(toks, i, CityNames) THEN {i + 1} ELSE {})
    \cup (IF WordAt(toks, i, CityNames) /\ WordAt(toks, i + 1, CityWords)
          THEN {i + 2} ELSE {})
    \cup (IF WordAt(toks, i, CityWords) /\ WordAt(toks, i + 1, CityNames)
          THEN {i + 2} ELSE {})

\* where the optional HIGHLEVEL_PARTS of a text stops: the alternatives
\* made of INDEX and CITY
HighLevelStops(toks) ==
    {1}
    \cup CityStops(toks, 1)
    \cup (IF IndexAt(toks, 1) THEN {2} \cup CityStops(toks, 2) ELSE {})

\* a word of a street name at i
NameWordAt(toks, i) ==
    /\ i <= Len(toks)
    /\ toks[i].type = "RU"
    /\ \/ NounButNoStreetType(Word(toks, i))
       \/ AdjfButNoStreetType(Word(toks, i))

\* ANUM at i
AnumAt(toks, i) == i <= Len(toks) /\ toks[i].type = "AlphaNumericWord"

\* where a STREET_NAME that starts at i stops: one word or ANUM, ANUM and a
\* word, two words
NameStops(toks, i) ==
    (IF NameWordAt(toks, i) \/ AnumAt(toks, i) THEN {i + 1} ELSE {})
    \cup (IF (NameWordAt(toks, i) \/ AnumAt(toks, i)) /\ NameWordAt(toks, i + 1)
          THEN {i + 2} ELSE {})

\* TYPE at i
TypeAt(toks, i) ==
    /\ i <= Len(toks)
    /\ toks[i].type \in {"RU", "DashedWord"}
    /\ GrammarMatches(toks[i].value) # {}

\* the parses of STREET at i: TYPE and name, name, name and TYPE,
\* TERRITORY_PREFIX and name
StreetParses(toks, i) ==
    (IF TypeAt(toks, i)
     THEN {[stop |-> j, name |-> JoinTokens(toks, i + 1, j),
            type |-> TypeFact(toks[i].value)] : j \in NameStops(toks, i + 1)}
     ELSE {})
    \cup {[stop |-> j, name |-> JoinTokens(toks, i, j), type |-> NoneStr] :
             j \in NameStops(toks, i)}
    \cup {[stop |-> j + 1, name |-> JoinTokens(toks, i, j),
           type |-> TypeFact(toks[j].value)] :
             j \in {k \in NameStops(toks, i) : TypeAt(toks, k)}}
    \cup (IF WordAt(toks, i, TerritoryWords)
          THEN {[stop |-> j, name |-> JoinTokens(toks, i + 1, j),
                 type |-> NoneStr] : j \in NameStops(toks, i + 1)}
          ELSE {})

\* HOUSE_LETTER at i
HouseLetterAt(toks, i) ==
    /\ i <= Len(toks)
    /\ toks[i].type = "RU"
    /\ Len(toks[i].value) = 1
    /\ Word(toks, i)[1] \in HouseLetters

\* where a number with an optional letter that starts at i stops
NumberStops(toks, i) ==
    (IF NonNegativeInt(toks, i) THEN {i + 1} ELSE {})
    \cup (IF NonNegativeInt(toks, i) /\ HouseLetterAt(toks, i + 1)
          THEN {i + 2} ELSE {})

\* a token of the value at i
ValueAt(toks, i, values) == i <= Len(toks) /\ toks[i].value \in values

\* where a DOM_NUMBER that starts at i stops
DomNumberStops(toks, i) ==
    NumberStops(toks, i)
    \cup UNION {NumberStops(toks, j + 1) :
                   j \in {k \in NumberStops(toks, i) :
                             ValueAt(toks, k, {<<"/">>})}}

\* the parses of DOM at i: the number, the word and the number, the number
\* and the word
DomParses(toks, i) ==
    {[stop |-> j, house |-> JoinTokens(toks, i, j)] :
        j \in DomNumberStops(toks, i)}
    \cup (IF WordAt(toks, i, DomWords)
          THEN {[stop |-> j, house |-> JoinTokens(toks, i + 1, j)] :
                   j \in DomNumberStops(toks, i + 1)}
          ELSE {})
    \cup {[stop |-> j + 1, house |-> JoinTokens(toks, i, j)] :
             j \in {k \in DomNumberStops(toks, i) : WordAt(toks, k, DomWords)}}

\* the parses of a word of the set followed by a number, at i: KORPUS and
\* STROENIE
MarkedNumber(toks, i, words) ==
    IF WordAt(toks, i, words) /\ NonNegativeInt(toks, i + 1)
    THEN {[stop |-> i + 2, value |-> toks[i + 1].value]}
    ELSE {}

\* the parses of an optional KORPUS or STROENIE at i
Optional(toks, i, words) ==
    {[stop |-> i, value |-> NoneStr]} \cup MarkedNumber(toks, i, words)

\* the parses of KVARTIRA at i: the number, the word and the number, the
\* number and the word
KvartiraParses(toks, i) ==
    (IF NonNegativeInt(toks, i)
     THEN {[stop |-> i + 1, value |-> toks[i].value]} ELSE {})
    \cup MarkedNumber(toks, i, KvartiraWords)
    \cup (IF NonNegativeInt(toks, i) /\ WordAt(toks, i + 1, KvartiraWords)
          THEN {[stop |-> i + 2, value |-> toks[i].value]} ELSE {})

\* the fact of a building
Building(stop, house, corpus, stroenie, flat) ==
    [stop |-> stop, house |-> house, corpus |-> corpus,
     stroenie |-> stroenie, flat |-> flat]

\* the parses of FULL_HOUSE_VARIANT at i: DOM with an optional STROENIE
\* and an optional KORPUS after it, or DOM, KORPUS and STROENIE
FullHouseParses(toks, i) ==
    UNION {UNION {{Building(k.stop, d.house, k.value, c.value, NoneStr) :
                      k \in Optional(toks, c.stop, KorpusWords)} :
                     c \in Optional(toks, d.stop, StroenieWords)} :
              d \in DomParses(toks, i)}
    \cup UNION {UNION {{Building(c.stop, d.house, k.value, c.value, NoneStr) :
                           c \in MarkedNumber(toks, k.stop, StroenieWords)} :
                          k \in MarkedNumber(toks, d.stop, KorpusWords)} :
                   d \in DomParses(toks, i)}

\* the parses of BUILDING at i
BuildingParses(toks, i) ==
    FullHouseParses(toks, i)
    \cup UNION {{Building(q.stop, h.house, h.corpus, h.stroenie, q.value) :
                    q \in KvartiraParses(toks, h.stop)} :
                   h \in FullHouseParses(toks, i)}
    \cup UNION {{Building(q.stop, d.house, NoneStr, NoneStr, q.value) :
                    q \in KvartiraParses(toks, d.stop + 1)} :
                   d \in {e \in DomParses(toks, i) :
                             ValueAt(toks, e.stop, {<<"-">>, <<",">>})}}
    \cup UNION {{Building(d.stop, d.house, NoneStr, NoneStr, q.value) :
                    d \in DomParses(toks, q.stop)} :
                   q \in KvartiraParses(toks, i)}

\* the facts of the parses of ADDRESS that cover the tokens
AddressFacts(toks) ==
    UNION {UNION {{[Name |-> st.name, Type |-> st.type, House |-> b.house,
                    Corpus |-> b.corpus, Stroenie |-> b.stroenie,
                    Flat |-> b.flat] :
                      b \in {c \in BuildingParses(toks, st.stop) :
                                c.stop = Len(toks) + 1}} :
                     st \in StreetParses(toks, h)} :
              h \in HighLevelStops(toks)}

\* no parse
NoFact ==
    [Name |-> NoneStr, Type |-> NoneStr, House |-> NoneStr,
     Corpus |-> NoneStr, Stroenie |-> NoneStr, Flat |-> NoneStr]

\* the house string with the stroenie before the corpus
HouseStringStroenieFirst(house, corpus, stroenie) ==
    house
    \o (IF stroenie # NoneStr THEN <<" ", "S", "T", "R", ".", " ">> \o stroenie
        ELSE <<>>)
    \o (IF corpus # NoneStr THEN <<" ", "K", ".", " ">> \o corpus ELSE <<>>)

\* the house of the Address: the House of the fact, then the corpus, then
\* the stroenie
HouseString(house, corpus, stroenie) ==
    house
    \o (IF corpus # NoneStr THEN <<" ", "K", ".", " ">> \o corpus ELSE <<>>)
    \o (IF stroenie # NoneStr THEN <<" ", "S", "T", "R", ".", " ">> \o stroenie
        ELSE <<>>)

\* an Address returned, an exception raised
Parsed(address) == [kind |-> "return", address |-> address, exc |-> ""]
Failed(exc) == [kind |-> "raise", address |-> NoAddress, exc |-> exc]

\* the Address Address.fromStr builds of a fact
AddressOfFact(f) ==
    IF f.Type # NoneStr /\ FromStr(f.Type) = "ValueError"
    THEN Failed("ValueError")
    ELSE Parsed(Address(
             Street(f.Name,
                    IF f.Type # NoneStr THEN FromStr(f.Type) ELSE NoneType),
             HouseString(f.House, f.Corpus, f.Stroenie),
             IF f.Flat # NoneStr THEN IntValue(f.Flat) ELSE NoFlat))

\* Address.fromStr: the outcomes for each parse the grammar allows
FromStrOutcomes(address) ==
    IF address = NoneStr \/ Strip(address) = <<>>
    THEN {Failed("AssertionError")}
    ELSE IF AddressFacts(Tokenize(address)) = {} THEN {Failed("ValueError")}
    ELSE {AddressOfFact(f) : f \in AddressFacts(Tokenize(address))}

(***************************************************************************)
(* main.process (src/main.py) and the table of exceptions                  *)
(* (src/src/exceptions_manager.py).                                        *)
(***************************************************************************)
\* the messages of process
MsgInExceptions == "Najden v isklyucheniyah"
MsgNotExists == "Adres ne sushchestvuet"
MsgNotParsed == "Adres ne razobran"

\* return addr, key, message; an exception that leaves a block
Result(address, key, message) ==
    [kind |-> "return", address |-> address, key |-> key,
     message |-> message, exc |-> ""]
Raised(exc) ==
    [kind |-> "raise", address |-> NoAddress, key |-> NoKey, message |-> "",
     exc |-> exc]

\* no record processed
NoResult == Raised("")

\* the replacements of ExceptionsManager._normalize_address: the first
\* twelve of those of the expansion, in the same order
ExceptionReplacements == SubSeq(Replacements, 1, 12)

\* ExceptionsManager._normalize_address
NormalizeAddress(address) ==
    IF address = NoneStr \/ address = <<>> THEN <<>>
    ELSE Join(Split(ApplyReplacements(Upper(address), ExceptionReplacements)))

\* exceptions_manager=None
NoManager == [none |-> TRUE, exceptions |-> EmptyBank]

\* an ExceptionsManager loaded from a file of one row
Manager(address, correct_address, key) ==
    [none |-> FALSE,
     exceptions |-> [a \in {NormalizeAddress(address)} |->
                        [correct_address |-> correct_address, key |-> key]]]

\* the raw address has an entry in the exceptions
Listed(em, raw) ==
    ~em.none /\ NormalizeAddress(raw) \in DOMAIN em.exceptions

\* the entry of the raw address
Entry(em, raw) == em.exceptions[NormalizeAddress(raw)]

\* ExceptionsManager.get_key: the key and the message
ManagerKey(em, raw) ==
    IF ~Listed(em, raw) THEN [key |-> NoKey, message |-> "adres ne najden"]
    ELSE IF Entry(em, raw).key = NoKey
    THEN [key |-> NoKey, message |-> "adres ne sushchestvuet"]
    ELSE [key |-> Entry(em, raw).key, message |-> ""]

\* if correct_address
HasCorrect(em, raw) ==
    /\ Listed(em, raw)
    /\ Entry(em, raw).correct_address \notin {NoneStr, <<>>}

\* process answers from the exceptions: the raw address has a key and a
\* correct address there, or is marked as not existing
FromExceptions(em, raw) ==
    /\ ~em.none
    /\ \/ ManagerKey(em, raw).key # NoKey /\ HasCorrect(em, raw)
       \/ /\ ManagerKey(em, raw).key = NoKey
          /\ ManagerKey(em, raw).message = "adres ne sushchestvuet"

\* the answer from the exceptions: c is Address.fromStr(correct_address),
\* q is Address.fromStr(raw)
ExceptionsAnswer(em, raw, c, q) ==
    IF ManagerKey(em, raw).key = NoKey
    THEN Result(NoAddress, NoKey, MsgNotExists)
    ELSE IF c.kind = "raise" THEN Result(NoAddress, NoKey, MsgNotExists)
    ELSE Result(IF q.kind = "return"
                THEN [c.address EXCEPT !.flat = q.address.flat]
                ELSE c.address,
                ManagerKey(em, raw).key, MsgInExceptions)

\* the lines after linker.getvalue(key): flat is the flat of the address
\* parsed; v is the outcome of getvalue
WithValue(flat, key, v) ==
    IF v.outcome.kind = "raise" THEN Raised(v.outcome.exc)
    ELSE IF v.value.isNone THEN Raised("AttributeError")
    ELSE Result([v.value EXCEPT !.flat = flat], key, "")

\* the lines after linker.link(addr, require_flat_check=True): r is what
\* link did, lk the Linker it leaves
WithKey(lk, r) ==
    IF r.outcome.kind = "raise" THEN Raised(r.outcome.exc)
    ELSE IF r.outcome.key = NoKey THEN Result(r.after, NoKey, MsgNotExists)
    ELSE WithValue(r.after.flat, r.outcome.key,
                   GetValueResult(lk, r.outcome.key, NoAddress))

\* the Linker after the try block: link is called when the expanded
\* address p is parsed
LinkerAfterLookup(lk, p) ==
    IF p.kind = "raise" THEN lk
    ELSE LinkerAfter(lk, p.address,
                     LinkResult(lk, p.address, TRUE).found.streets, TRUE)

\* the try block of the lookup in the reference table: p is
\* Address.fromStr(expanded_address)
Lookup(lk, p) ==
    IF p.kind = "raise" THEN Raised(p.exc)
    ELSE WithKey(LinkerAfterLookup(lk, p), LinkResult(lk, p.address, TRUE))

\* the handler that reports every failure as an address that does not
\* exist
FallbackNotExists(q) ==
    Result(IF q.kind = "return" THEN q.address ELSE NoAddress, NoKey,
           MsgNotExists)

\* except Exception: the raw address is parsed by itself; q is
\* Address.fromStr(raw)
Fallback(q) ==
    IF q.kind = "return" THEN Result(q.address, NoKey, MsgNotExists)
    ELSE Result(NoAddress, NoKey, MsgNotParsed)

\* the lookup in the reference table with its handler
Directory(lk, p, q) ==
    IF Lookup(lk, p).kind = "raise" THEN Fallback(q) ELSE Lookup(lk, p)

\* Address.fromStr(correct_address) for the entry of the raw address
CorrectOutcomes(em, raw) ==
    IF HasCorrect(em, raw)
    THEN FromStrOutcomes(Entry(em, raw).correct_address)
    ELSE {Failed("")}

\* process(addres, exceptions_manager)
ProcessResult(lk, raw, em, p, q, c) ==
    IF FromExceptions(em, raw) THEN ExceptionsAnswer(em, raw, c, q)
    ELSE Directory(lk, p, q)

(***************************************************************************)
(* The tables, addresses and calls explored.                               *)
(***************************************************************************)
nAB == <<"A", "B">>
nB == <<"B">>
nBO == <<"B", "O">>
tUL == <<"U", "L", ".">>
tPL == <<"P", "L", ".">>
tULITSA == <<"U", "L", "I", "T", "S", "A">>
tXX == <<"X", "X">>
h1A == <<"1", "A">>
h2 == <<"2">>

Row(type, name, house, start, end, key) ==
    [Type |-> type, Name |-> name, House |-> house, Flat_start |-> start,
     Flat_end |-> end, Key |-> key]

\* the rows a reference table is made of: a street with two flat ranges in
\* one house, a square of the same name, a street whose name is an
\* abbreviation and one whose name is its full form, a second house, a
\* type written in full and a type that is no street type
rStreet == Row(tUL, nAB, h1A, 1, 2, 1)
rStreetUp == Row(tUL, nAB, h1A, 2, 3, 2)
rSquare == Row(tPL, nAB, h1A, 3, 3, 3)
rShort == Row(tUL, nB, h1A, 1, 2, 4)
rLong == Row(tUL, nBO, h1A, 1, 2, 5)
rHouse == Row(tPL, nAB, h2, 1, 2, 1)
rFullType == Row(tULITSA, nAB, h1A, 1, 2, 6)
rNoType == Row(tXX, nAB, h1A, 1, 2, 7)

\* the rows written in the format of the table
RowUniverse == {rStreet, rStreetUp, rSquare, rShort, rLong, rHouse}

\* the rows of the one name that share a house: the table of a subdivided
\* house and of a street and a square of one name
SameHouseRows == {rStreet, rStreetUp, rSquare}

\* rows of one name and house whose Type is written in other ways
TypeRows == {rStreet, rSquare, rFullType, rNoType}

\* the lists of at most n rows of a universe
RECURSIVE RowLists(_, _)
RowLists(universe, n) ==
    IF n = 0 THEN {<<>>}
    ELSE RowLists(universe, n - 1)
         \cup {Append(l, r) :
                  l \in {x \in RowLists(universe, n - 1) : Len(x) = n - 1},
                  r \in universe}

\* column sets that lack a required column: each required column dropped,
\* no column at all, and the wrong_columns of TestLinker_load
BadColumnSets ==
    {RequiredColumns \ {c} : c \in RequiredColumns}
    \cup {{}, {"Some", "Wrong", "Columns", "And", "Right", "Type", "Name"}}

\* a row cut down to the columns of its table
Restrict(row, columns) == [c \in DOMAIN row \cap columns |-> row[c]]

\* the columns in the order of the export, and the other columns a table
\* may have
TableOrder == <<"Type", "Name", "House", "Flat_start", "Flat_end", "Key">>
OtherColumns == <<"Some", "Wrong", "Columns", "And", "Right">>

\* the columns of a set in the order they are written in
OrderOf(columns) ==
    SelectSeq(TableOrder \o OtherColumns, LAMBDA c : c \in columns)

\* the six columns written in another order: Name before Type, House
\* before Name
OtherOrders ==
    {<<"Name", "Type", "House", "Flat_start", "Flat_end", "Key">>,
     <<"Type", "House", "Name", "Flat_start", "Flat_end", "Key">>}

\* a row with one more column
Extend(row, column, value) ==
    [c \in DOMAIN row \cup {column} |->
        IF c \in DOMAIN row THEN row[c] ELSE value]

Tables ==
    {[columns |-> RequiredColumns, order |-> TableOrder, rows |-> l] :
        l \in RowLists(RowUniverse, MaxRows)
              \cup RowLists(SameHouseRows, MaxRows + 1)
              \cup RowLists(TypeRows, MaxRows)}
    \cup {[columns |-> c, order |-> OrderOf(c), rows |-> <<>>] :
             c \in BadColumnSets}
    \cup {[columns |-> c, order |-> OrderOf(c),
           rows |-> <<Restrict(rStreet, c)>>] : c \in BadColumnSets}
    \cup {[columns |-> RequiredColumns, order |-> o, rows |-> <<r>>] :
             o \in OtherOrders, r \in {rStreet, rShort}}
    \cup {[columns |-> RequiredColumns \cup {"Some"},
           order |-> TableOrder \o <<"Some">>,
           rows |-> <<Extend(rStreet, "Some", <<>>)>>]}

\* the streets, houses and flats of the addresses asked for
QueryNames == {NoneStr, nAB, <<" ", "a", "b">>, nB, nBO}
QueryTypes == {NoneType, "STREET", "PLOSHAD", "SHOSSE"}
QueryHouses == {NoneStr, h1A, <<"1", "a">>}
QueryFlats == {NoFlat} \cup 0..MaxFlat

Addresses ==
    {NoAddress}
    \cup {Address(NoStreet, h, NoFlat) : h \in QueryHouses}
    \cup {Address(Street(n, t), h, f) :
             n \in QueryNames, t \in QueryTypes, h \in QueryHouses,
             f \in QueryFlats}

\* the addresses getkey is asked for: those without a flat
KeyAddresses == {a \in Addresses : a.flat = NoFlat}

\* the streets find and get_variants are asked for
QueryStreets ==
    {NoStreet} \cup {Street(n, t) : n \in QueryNames, t \in QueryTypes}

\* the keys getvalue is asked for: keys of rows and a key of no row
QueryKeys == {1, 3, 4, 9}

\* the default value passed to getkey: a value that is no Key
Defaults == {99}

(***************************************************************************)
(* The state machine: a table is read, loaded into a Linker, and the       *)
(* Linker is asked for keys.                                               *)
(***************************************************************************)
NoFound == [none |-> TRUE, streets |-> <<>>]

NoCall ==
    [op |-> "none", address |-> NoAddress, rfc |-> FALSE, default |-> NoKey,
     outcome |-> Return(NoKey), findCalled |-> FALSE, found |-> NoFound,
     tested |-> <<>>, after |-> NoAddress, street |-> NoStreet,
     key |-> NoKey, value |-> NoAddress]

\* no type text parsed
NoParse == [op |-> "none", text |-> <<>>, type |-> NoneType]

\* no operation made on the StreetsFinder used by itself
NoOp ==
    [op |-> "none", street |-> NoStreet, before |-> EmptyBank,
     prevOp |-> "none", prevStreet |-> NoStreet, prevBefore |-> EmptyBank]

\* no raw address handled
NoRecord ==
    [op |-> "none", raw |-> <<>>, text |-> <<>>, fact |-> NoFact,
     outcome |-> Failed(""), free |-> FALSE, manager |-> NoManager,
     result |-> NoResult]

Init ==
    /\ table \in Tables
    /\ linker = NoLinker
    /\ call = NoCall
    /\ finder = EmptyBank
    /\ done = NoOp
    /\ parsed = NoParse
    /\ record = NoRecord

\* init_linker: linker = Linker.load(db)
Load ==
    /\ call.op = "none"
    /\ LET r == LoadResult(table)
       IN  /\ linker' = r.linker
           /\ call' = [NoCall EXCEPT
                          !.op = "load",
                          !.outcome = IF r.exc = "" THEN Return(NoKey)
                                      ELSE Raise(r.exc)]
    /\ UNCHANGED <<table, finder, done, parsed, record>>

\* linker.link(address, require_flat_check)
Link ==
    /\ linker.built
    /\ call.op = "idle"
    /\ \E address \in Addresses, rfc \in BOOLEAN :
          LET r == LinkResult(linker, address, rfc)
          IN  /\ call' = [NoCall EXCEPT
                             !.op = "link", !.address = address, !.rfc = rfc,
                             !.outcome = r.outcome,
                             !.findCalled = r.findCalled, !.found = r.found,
                             !.tested = r.tested, !.after = r.after]
              /\ linker' = LinkerAfter(linker, address, r.found.streets, rfc)
    /\ UNCHANGED <<table, finder, done, parsed, record>>

\* linker.getkey(address, default_value, require_flat_check)
GetKey ==
    /\ linker.built
    /\ call.op = "idle"
    /\ \E address \in KeyAddresses, default \in Defaults, rfc \in BOOLEAN :
          LET r == GetKeyResult(linker, address, default, rfc)
          IN  /\ call' = [NoCall EXCEPT
                             !.op = "getkey", !.address = address,
                             !.rfc = rfc, !.default = default,
                             !.outcome = r.outcome,
                             !.findCalled = r.findCalled, !.found = r.found,
                             !.tested = r.tested, !.after = r.after]
              /\ linker' = LinkerAfter(linker, address, r.found.streets, rfc)
    /\ UNCHANGED <<table, finder, done, parsed, record>>

\* linker.getvalue(key): default_value is None
GetValue ==
    /\ linker.built
    /\ call.op = "idle"
    /\ \E key \in QueryKeys :
          LET r == GetValueResult(linker, key, NoAddress)
          IN  call' = [NoCall EXCEPT
                          !.op = "getvalue", !.key = key,
                          !.outcome = r.outcome, !.value = r.value]
    /\ UNCHANGED <<table, linker, finder, done, parsed, record>>

\* linker.finder.find(key)
FindStreet ==
    /\ linker.built
    /\ call.op = "idle"
    /\ \E key \in QueryStreets :
          LET r == FindResult(linker.data, key)
          IN  call' = [NoCall EXCEPT
                          !.op = "find", !.street = key,
                          !.outcome = r.outcome, !.findCalled = TRUE,
                          !.found = r.found]
    /\ UNCHANGED <<table, linker, finder, done, parsed, record>>

\* linker.finder.get_variants(key)
FindVariantsOf ==
    /\ linker.built
    /\ call.op = "idle"
    /\ \E key \in QueryStreets :
          LET r == GetVariantsResult(linker.data, key)
          IN  call' = [NoCall EXCEPT
                          !.op = "get_variants", !.street = key,
                          !.outcome = r.outcome, !.found = r.found]
    /\ UNCHANGED <<table, linker, finder, done, parsed, record>>

\* the operations that read the Linker
Lookups == {"link", "getkey", "getvalue", "find", "get_variants"}

\* the caller takes the Linker or the result of a call; the next record is
\* processed
Finish ==
    /\ call.op \in Lookups \/ (call.op = "load" /\ linker.built)
    /\ call' = [NoCall EXCEPT !.op = "idle"]
    /\ UNCHANGED <<table, linker, finder, done, parsed, record>>

Next ==
    Load \/ Link \/ GetKey \/ GetValue \/ FindStreet \/ FindVariantsOf \/ Finish

Spec == Init /\ [][Next]_vars

(***************************************************************************)
(* A StreetsFinder used by itself: streets are appended to and removed     *)
(* from its bank.                                                          *)
(***************************************************************************)
nBAB == <<"B", " ", "A", "B">>

\* the streets appended and removed: a name of one word, an abbreviated
\* word, its full form, and a name of two words the second of which
\* contains the first; each as a street and as a square
BankStreets ==
    {Street(n, t) : n \in {nAB, nB, nBO, nBAB}, t \in {"STREET", "PLOSHAD"}}

\* the streets a bank lists
StreetsOf(data) ==
    UNION {{data[k][i] : i \in 1..Len(data[k])} : k \in DOMAIN data}

\* StreetsFinder(): the bank is empty
FinderInit ==
    /\ table = [columns |-> RequiredColumns, order |-> TableOrder,
                rows |-> <<>>]
    /\ linker = NoLinker
    /\ call = NoCall
    /\ finder = EmptyBank
    /\ done = NoOp
    /\ parsed = NoParse
    /\ record = NoRecord

\* finder.append(street)
AppendStreet ==
    /\ \E street \in BankStreets :
          /\ street \in StreetsOf(finder)
                \/ Cardinality(StreetsOf(finder)) < MaxStreets
          /\ finder' = FinderAppend(finder, street)
          /\ done' = [op |-> "append", street |-> street, before |-> finder,
                      prevOp |-> done.op, prevStreet |-> done.street,
                      prevBefore |-> done.before]
    /\ UNCHANGED <<table, linker, call, parsed, record>>

\* finder.remove(street)
RemoveStreet ==
    /\ \E street \in BankStreets :
          /\ finder' = FinderRemove(finder, street)
          /\ done' = [op |-> "remove", street |-> street, before |-> finder,
                      prevOp |-> done.op, prevStreet |-> done.street,
                      prevBefore |-> done.before]
    /\ UNCHANGED <<table, linker, call, parsed, record>>

FinderNext == AppendStreet \/ RemoveStreet

FinderSpec == FinderInit /\ [][FinderNext]_vars

(***************************************************************************)
(* Type texts parsed by themselves and as the type word of an address.     *)
(***************************************************************************)
\* the words some alternative accepts
AllKeywords == UNION {Keywords(t) : t \in StreetTypes}

\* the texts parsed: every keyword in lower and in upper case, with and
\* without a final ".", the short names, and texts that are no type
TypeTexts ==
    AllKeywords
    \cup {Upper(w) : w \in AllKeywords}
    \cup {w \o <<".">> : w \in AllKeywords}
    \cup {Upper(w) \o <<".">> : w \in AllKeywords}
    \cup {ShortName(t) : t \in StreetTypes}
    \cup {<<"x">>, <<"p", "r", "o">>, <<>>}

TypeInit ==
    /\ table = [columns |-> RequiredColumns, order |-> TableOrder,
                rows |-> <<>>]
    /\ linker = NoLinker
    /\ call = NoCall
    /\ finder = EmptyBank
    /\ done = NoOp
    /\ parsed = NoParse
    /\ record = NoRecord

\* StreetType.fromStr(text)
FromStrCall ==
    /\ \E text \in TypeTexts :
          parsed' = [op |-> "fromStr", text |-> text, type |-> FromStr(text)]
    /\ UNCHANGED <<table, linker, call, finder, done, record>>

\* Address.fromStr on an address whose type word is the text
ParseType ==
    /\ \E text \in TypeTexts :
          parsed' = [op |-> "TYPE", text |-> text, type |-> GrammarType(text)]
    /\ UNCHANGED <<table, linker, call, finder, done, record>>

TypeNext == FromStrCall \/ ParseType

TypeSpec == TypeInit /\ [][TypeNext]_vars

(***************************************************************************)
(* Raw addresses expanded and parsed by themselves.                        *)
(***************************************************************************)
\* the parts of a text, joined by a space
TextOf(parts) == Join(SelectSeq(parts, LAMBDA p : p # <<>>))

\* the type words of the texts
TypeParts ==
    {<<>>, <<"u", "l">>, <<"U", "L", ".">>, <<"p", "l">>, <<"t", "e", "r", "r", "i", "t", "o", "r", "i", "a">>}

\* the names of the texts
NameParts == {<<"A", "B">>, <<"B", "O">>, <<"a", "j", " ", "A", "B">>}

\* the houses of the texts
HouseParts ==
    {<<"1", "A">>, <<"5">>, <<"d", " ", "5">>, <<"2", " ", "k", " ", "1", " ", "s", " ", "3">>, <<"2", " ", "s", " ", "3", " ", "k", " ", "1">>, <<"2", " ", "k", " ", "1">>, <<"2", "/", "1">>}

\* the flats of the texts
FlatParts == {<<>>, <<"2">>, <<"5">>, <<"k", "v", " ", "2">>, <<"-", "2">>}

\* texts that are no address
OtherTexts == {<<>>, <<" ">>, <<".", ",">>, <<"A", "B">>, <<"5">>, <<"-">>}

\* the texts with a type word of the set
TextsOf(types) ==
    {TextOf(<<t, n, h, f>>) :
        t \in types, n \in NameParts, h \in HouseParts, f \in FlatParts}
    \cup OtherTexts

\* the raw addresses expanded
RawTexts == TextsOf(TypeParts \cup {<<"t", "e", "r">>})

\* the texts parsed
ParseTexts == TextsOf(TypeParts)

\* the words classified: the keywords of the street types and the house,
\* flat and city marker words, and the names of the texts
MarkerWords ==
    AllKeywords \cup DomWords \cup KvartiraWords \cup CityWords \cup CityNames

ClassifiedWords == MarkerWords \cup {<<"a", "b">>, <<"b", "o">>, <<"a", "j">>}

AddressInit ==
    /\ table = [columns |-> RequiredColumns, order |-> TableOrder,
                rows |-> <<>>]
    /\ linker = NoLinker
    /\ call = NoCall
    /\ finder = EmptyBank
    /\ done = NoOp
    /\ parsed = NoParse
    /\ record = NoRecord

\* temp_worker._expand_address_with_rules(raw)
ExpandAddress ==
    /\ record.op = "none"
    /\ \E raw \in RawTexts :
          record' = [NoRecord EXCEPT !.op = "expand", !.raw = raw,
                                     !.text = ExpandAddressWithRules(raw)]
    /\ UNCHANGED <<table, linker, call, finder, done, parsed>>

\* Address.fromStr(text) when the assertion fails or no parse covers the
\* text
AddressFromStrFails ==
    /\ record.op = "none"
    /\ \E text \in ParseTexts :
          /\ \/ Strip(text) = <<>>
             \/ AddressFacts(Tokenize(text)) = {}
          /\ \E out \in FromStrOutcomes(text) :
                record' = [NoRecord EXCEPT !.op = "fromStr", !.raw = text,
                                           !.text = text, !.outcome = out]
    /\ UNCHANGED <<table, linker, call, finder, done, parsed>>

\* Address.fromStr(text) on one of the parses of the text
AddressFromStr ==
    /\ record.op = "none"
    /\ \E text \in ParseTexts :
          /\ Strip(text) # <<>>
          /\ \E f \in AddressFacts(Tokenize(text)) :
                record' = [NoRecord EXCEPT !.op = "fromStr", !.raw = text,
                                           !.text = text, !.fact = f,
                                           !.outcome = AddressOfFact(f)]
    /\ UNCHANGED <<table, linker, call, finder, done, parsed>>

\* NOT_STREET_TYPE_OR_OTHER_KEYWORD applied to a word
ClassifyWord ==
    /\ record.op = "none"
    /\ \E word \in ClassifiedWords :
          record' = [NoRecord EXCEPT
                        !.op = "word", !.raw = word,
                        !.free = NotStreetTypeOrOtherKeyword(word)]
    /\ UNCHANGED <<table, linker, call, finder, done, parsed>>

\* the next record of the batch is taken
NextRecord ==
    /\ record.op # "none"
    /\ record' = NoRecord
    /\ UNCHANGED <<table, linker, call, finder, done, parsed>>

AddressNext ==
    \/ ExpandAddress
    \/ AddressFromStrFails
    \/ AddressFromStr
    \/ ClassifyWord
    \/ NextRecord

AddressSpec == AddressInit /\ [][AddressNext]_vars

(***************************************************************************)
(* Raw records processed against a loaded reference table.                 *)
(***************************************************************************)
\* the reference tables loaded
ProcessTables ==
    {[columns |-> RequiredColumns, order |-> TableOrder, rows |-> l] :
        l \in RowLists(SameHouseRows, MaxRows)}

\* the raw records: addresses of the streets of the tables and of others,
\* with and without a type and a flat, texts that are no address, and nan
ProcessTexts ==
    {TextOf(<<t, n, h, f>>) :
        t \in {<<>>, <<"u", "l">>, <<"p", "l">>}, n \in {<<"A", "B">>, <<"B", "O">>},
        h \in {<<"1", "a">>, <<"5">>},
        f \in {<<>>, <<"2">>, <<"5">>, <<"k", "v", " ", "3">>}}
    \cup OtherTexts
    \cup {NoneStr}

\* the exceptions managers: none, and a table of one row for a text, with
\* a key and a correct address that parses, one that does not and none,
\* and with no key
Managers ==
    {NoManager}
    \cup {Manager(a, c, 9) :
             a \in {<<"A", "B", " ", "5">>, <<".", ",">>}, c \in {<<"u", "l", " ", "A", "B", " ", "1", "A">>, <<".", ",">>, <<>>}}
    \cup {Manager(<<".", ",">>, <<>>, NoKey)}

ProcessInit ==
    /\ table \in ProcessTables
    /\ linker = LoadResult(table).linker
    /\ call = NoCall
    /\ finder = EmptyBank
    /\ done = NoOp
    /\ parsed = NoParse
    /\ record = NoRecord

\* process(addres, exceptions_manager): p, q and c are the parses taken of
\* the expanded address, of the raw address and of the correct address
Process ==
    /\ linker.built
    /\ record.op = "none"
    /\ \E raw \in ProcessTexts, em \in Managers :
          \E p \in FromStrOutcomes(ExpandAddressWithRules(raw)),
             q \in FromStrOutcomes(raw), c \in CorrectOutcomes(em, raw) :
                /\ record' = [NoRecord EXCEPT
                                 !.op = "process", !.raw = raw,
                                 !.text = ExpandAddressWithRules(raw),
                                 !.manager = em,
                                 !.result = ProcessResult(linker, raw, em,
                                                          p, q, c)]
                /\ linker' = IF FromExceptions(em, raw) THEN linker
                             ELSE LinkerAfterLookup(linker, p)
    /\ UNCHANGED <<table, call, finder, done, parsed>>

\* the next row of the input file is taken
NextRow ==
    /\ record.op = "process"
    /\ record' = NoRecord
    /\ UNCHANGED <<table, linker, call, finder, done, parsed>>

ProcessNext == Process \/ NextRow

ProcessSpec == ProcessInit /\ [][ProcessNext]_vars

(***************************************************************************)
(* Properties of link.                                                     *)
(***************************************************************************)
\* the call just made is link (or getkey, which calls link)
Linked == call.op = "link"

\* row i has the name and the house of the address with street st put in
\* its place, and its type when st has one
Survives(i, st) ==
    /\ linker.df[i].Name = Upper(st.name)
    /\ linker.df[i].House = Upper(call.address.house)
    /\ st.type # NoneType => linker.df[i].Type = Upper(ShortName(st.type))

\* the flat of the address is asked to be checked
FlatChecked == call.rfc /\ call.address.flat # NoFlat

\* row i holds the flat of the address
InRange(i) ==
    /\ linker.df[i].Flat_start <= call.address.flat
    /\ call.address.flat <= linker.df[i].Flat_end

\* the rows that match the address with street st put in its place
MatchingRows(st) ==
    {i \in 1..Len(linker.df) : Survives(i, st) /\ (FlatChecked => InRange(i))}

\* the outcome the number of rows in `rows` calls for
Verdict(rows) ==
    IF rows = {} THEN Raise("NotInDBException")
    ELSE IF Cardinality(rows) = 1
         THEN Return(linker.df[CHOOSE i \in rows : TRUE].Key)
         ELSE Raise("UnresolvedAmbigiuty")

\* C1: when find returns exactly one street, link substitutes it in the
\* address and matches the rows: no matching row raises NotInDBException,
\* one returns its Key, several raise UnresolvedAmbigiuty
C1_OneVariant ==
    (Linked /\ ~call.found.none /\ Len(call.found.streets) = 1)
        => call.outcome = Verdict(MatchingRows(call.found.streets[1]))

\* find returned one street that two rows match, and link refused to choose
C1_Witness ==
    /\ Linked /\ ~call.found.none /\ Len(call.found.streets) = 1
    /\ Cardinality(MatchingRows(call.found.streets[1])) = 2
    /\ call.outcome = Raise("UnresolvedAmbigiuty")

\* the rows of the streets find returned that are the only match of their
\* street
UniqueRows ==
    {i \in 1..Len(linker.df) :
        \E v \in 1..Len(call.found.streets) :
            MatchingRows(call.found.streets[v]) = {i}}

\* the streets find returned that have exactly one matching row
CollectedStreets ==
    {v \in 1..Len(call.found.streets) :
        Cardinality(MatchingRows(call.found.streets[v])) = 1}

\* C2: when find returns several streets, only those with exactly one
\* matching row are collected: none collected raises NotInDBException, one
\* returns its key, several raise UnresolvedAmbigiuty
C2_SeveralVariants ==
    (Linked /\ ~call.found.none /\ Len(call.found.streets) > 1)
        => /\ Cardinality(CollectedStreets) = 0
                => call.outcome = Raise("NotInDBException")
           /\ Cardinality(CollectedStreets) = 1
                => call.outcome = Verdict(UniqueRows)
           /\ Cardinality(CollectedStreets) > 1
                => call.outcome = Raise("UnresolvedAmbigiuty")

\* find returned two streets, one with two matching rows and one with one,
\* and link returned the key of the latter
C2_Witness ==
    /\ Linked /\ Len(call.found.streets) = 2
    /\ Cardinality(CollectedStreets) = 1
    /\ \E v \in 1..2 : Cardinality(MatchingRows(call.found.streets[v])) = 2
    /\ call.outcome.kind = "return"

\* the number of times key k occurs in the list
Count(list, k) == Cardinality({i \in 1..Len(list) : list[i] = k})

\* C3: with require_flat_check and a flat f, a row that survives the
\* name/house/type filter is kept by the flat filter iff
\* Flat_start <= f <= Flat_end, both ends inclusive
C3_FlatRange ==
    (Linked /\ FlatChecked)
        => \A e \in 1..Len(call.tested) :
              \A k \in {linker.df[i].Key : i \in 1..Len(linker.df)} :
                 Count(call.tested[e].matches, k)
                   = Cardinality({i \in 1..Len(linker.df) :
                        /\ Survives(i, call.tested[e].street)
                        /\ InRange(i)
                        /\ linker.df[i].Key = k})

\* of two surviving rows the flat is the last of one range, which is kept,
\* and one past the last of the other, which is not
C3_Witness ==
    /\ Linked /\ FlatChecked /\ Len(call.tested) = 1
    /\ \E i, j \in 1..Len(linker.df) :
          /\ Survives(i, call.tested[1].street)
          /\ Survives(j, call.tested[1].street)
          /\ call.address.flat = linker.df[i].Flat_end
          /\ call.address.flat = linker.df[j].Flat_end + 1
          /\ call.tested[1].matches = <<linker.df[i].Key>>

\* rows i and j are the two rows of their name and house, and differ in type
TwoTypes(i, j) ==
    /\ i # j
    /\ linker.df[i].Name = linker.df[j].Name
    /\ linker.df[i].House = linker.df[j].House
    /\ linker.df[i].Type # linker.df[j].Type
    /\ \A k \in 1..Len(linker.df) :
          (linker.df[k].Name = linker.df[i].Name
             /\ linker.df[k].House = linker.df[i].House) => k \in {i, j}

\* the address has the name and the house of row i and no street type
AsksFor(i) ==
    /\ ~call.address.isNone /\ ~call.address.street.isNone
    /\ call.address.street.name = linker.df[i].Name
    /\ call.address.house = linker.df[i].House
    /\ call.address.street.type = NoneType

\* the Type of row i is the short form of its street type
ShortTyped(i) == linker.df[i].Type = ShortName(FromStr(linker.df[i].Type))

AddressOfRow(i) ==
    Address(Street(linker.df[i].Name, FromStr(linker.df[i].Type)),
            linker.df[i].House, NoFlat)

\* the rows that share name, type and house with row i
Sharing(i) ==
    {j \in 1..Len(linker.df) :
        /\ linker.df[j].Name = linker.df[i].Name
        /\ linker.df[j].Type = linker.df[i].Type
        /\ linker.df[j].House = linker.df[i].House}

\* link was called without the flat check on the address built from row i
RoundTrip(i) ==
    Linked /\ ~call.rfc /\ call.address = AddressOfRow(i)

\* C5 as claimed: link on the address built from a row, without the flat
\* check, returns the Key of that row or of a row sharing its name, type
\* and house; it never fails
C5_AlwaysAKey ==
    \A i \in 1..Len(linker.df) :
        RoundTrip(i) => /\ call.outcome.kind = "return"
                        /\ \E j \in Sharing(i) :
                              call.outcome.key = linker.df[j].Key

\* row i is written in the format of the table: Name and House upper-case
\* without surrounding blanks, Type in the short form of its street type
Canonical(i) ==
    /\ linker.df[i].Name = Upper(Strip(linker.df[i].Name))
    /\ linker.df[i].House = Upper(linker.df[i].House)
    /\ ShortTyped(i)

\* every street of the type of row i that the bank lists under the Name of
\* row i is the street of row i
OwnSpelling(i) ==
    \A v \in 1..Len(linker.data[linker.df[i].Name]) :
        linker.data[linker.df[i].Name][v].type = FromStr(linker.df[i].Type)
            => linker.data[linker.df[i].Name][v].name = linker.df[i].Name

\* C5 amended: for a row in the format of the table whose Name is not also
\* a derived spelling of another street of its type, link on the address
\* built from the row, without the flat check, returns the row's Key when
\* no other row shares its name, type and house, and raises
\* UnresolvedAmbigiuty when several rows share them
C5_RoundTrip ==
    \A i \in 1..Len(linker.df) :
        (RoundTrip(i) /\ Canonical(i) /\ OwnSpelling(i))
            => call.outcome = Verdict(Sharing(i))

\* the round trip of a row of a street whose name a square shares returned
\* the Key of the row
C5_Witness ==
    \E i, j \in 1..Len(linker.df) :
        /\ RoundTrip(i) /\ Canonical(i) /\ OwnSpelling(i)
        /\ linker.df[j].Name = linker.df[i].Name
        /\ linker.df[j].House = linker.df[i].House
        /\ linker.df[j].Type # linker.df[i].Type
        /\ call.outcome = Return(linker.df[i].Key)

(***************************************************************************)
(* Properties of load.                                                     *)
(***************************************************************************)
\* load has just been called on the table
LoadCalled == call.op = "load"

\* the table lacks one of the six columns
LacksColumn == ~(RequiredColumns \subseteq table.columns)

\* the Type of every row of the table is a spelling of a street type
TypesRecognised ==
    \A i \in 1..Len(table.rows) : FromStr(table.rows[i].Type) # "ValueError"

\* load failed on its assert: no Linker, no bank, nothing looked up
Rejected ==
    /\ call.op = "load" /\ call.outcome = Raise("AssertionError")
    /\ linker = NoLinker
    /\ ~call.findCalled /\ call.tested = <<>>

\* a call of link or getkey is made, or was made, on the Linker
LookedUp == call.op \in Lookups \cup {"idle"}

\* C6 as claimed: load fails on a table that lacks one of the six columns,
\* before a Linker or a StreetsFinder is built and before any lookup; a
\* table with all six columns yields a Linker
C6_SixColumnsSuffice ==
    /\ LoadCalled => /\ LacksColumn => Rejected
                     /\ ~LacksColumn => linker.built
    /\ LookedUp => ~LacksColumn

\* C6 amended: load fails on a table that lacks one of the six columns,
\* before a Linker or a StreetsFinder is built and before any lookup; a
\* table with all six columns yields a Linker of its rows when the Type of
\* every row is a spelling of a street type (so when it has no rows), and
\* fails with ValueError otherwise
C6_Load ==
    /\ LoadCalled =>
          /\ LacksColumn => Rejected
          /\ (~LacksColumn /\ TypesRecognised)
                => linker.built /\ linker.df = table.rows
          /\ (~LacksColumn /\ ~TypesRecognised)
                => linker = NoLinker /\ call.outcome = Raise("ValueError")
    /\ LookedUp => ~LacksColumn /\ linker.built

\* load was called on a table of one row that lacks only the Key column,
\* and failed on its assert
C6_Witness ==
    /\ table.columns = RequiredColumns \ {"Key"}
    /\ Len(table.rows) = 1
    /\ Rejected

(***************************************************************************)
(* Properties of the failures of link and getkey.                          *)
(***************************************************************************)
\* the address, its street or its house is None
Absent ==
    call.address.isNone \/ call.address.street.isNone
        \/ call.address.house = NoneStr

\* C7: getkey never raises: it returns the key link returns when link
\* succeeds and default_value whenever link fails
C7_GetKeyNeverRaises ==
    call.op = "getkey" =>
        LET r == LinkResult(linker, call.address, call.rfc).outcome
        IN  call.outcome = IF r.kind = "return" THEN r
                           ELSE Return(call.default)

\* C8: link rejects an address that is absent or has no street or no house
\* with a failure of the LinkerException family, before find is called and
\* before a row is read
C8_TypedRejection ==
    (Linked /\ Absent)
        => /\ call.outcome.kind = "raise"
           /\ call.outcome.exc \in LinkerExceptions
           /\ ~call.findCalled /\ call.tested = <<>>

\* C9: link returns None, without raising, for an absent address, an
\* address with no house and an address whose street has no name
C9_ReturnsNone ==
    (Linked /\ (call.address.isNone \/ call.address.house = NoneStr
                  \/ call.address.street.name = NoneStr))
        => call.outcome = Return(NoKey)

\* some spelling of the bank is within the cutoff of the trimmed,
\* upper-cased street name of the address
SpellingWithinCutoff ==
    \E x \in DOMAIN linker.data :
        WithinCutoff(Ratio(x, Upper(Strip(call.address.street.name))))

\* C10: link raises NormalizationException exactly when no spelling of the
\* bank is within the cutoff of the street name, whatever the street type
\* of the address
C10_NormalizationIff ==
    (Linked /\ ~Absent /\ call.address.street.name # NoneStr)
        => (call.outcome = Raise("NormalizationException")
              <=> ~SpellingWithinCutoff)

(***************************************************************************)
(* Properties of the failures of link, continued.                          *)
(***************************************************************************)
\* some street find returned has a matching row
SomeCandidateMatches ==
    \E v \in 1..Len(call.found.streets) :
        MatchingRows(call.found.streets[v]) # {}

\* C11: link raises NotInDBException only when find returned streets and
\* no row matches any of them; whenever some street find returned has a
\* matching row, link returns a key or raises UnresolvedAmbigiuty
C11_NotInDBOnlyWithoutRows ==
    Linked =>
      /\ call.outcome = Raise("NotInDBException")
            => ~call.found.none /\ ~SomeCandidateMatches
      /\ (~call.found.none /\ SomeCandidateMatches)
            => \/ call.outcome.kind = "return"
               \/ call.outcome = Raise("UnresolvedAmbigiuty")

(***************************************************************************)
(* Frame properties of link and getkey.                                    *)
(***************************************************************************)
\* C12: link and getkey leave the caller's Address as it was passed (street
\* name, street type, house and flat), whether they return or raise
C12_CallerAddressKept ==
    call.op \in {"link", "getkey"} => call.after = call.address

\* link put a street that is not the caller's in the place of the street,
\* returned a key, and the caller's Address is as it was passed
C12_Witness ==
    /\ Linked /\ call.outcome.kind = "return"
    /\ Len(call.tested) = 1
    /\ call.tested[1].street # call.address.street
    /\ call.after = call.address

\* the Linker load built from the table
Loaded == LoadResult(table).linker

\* the outcome of the call just made when it is the first call made on lk
Alone(lk) ==
    CASE call.op = "link" ->
            LinkResult(lk, call.address, call.rfc).outcome
      [] call.op = "getkey" ->
            GetKeyResult(lk, call.address, call.default, call.rfc).outcome
      [] call.op = "getvalue" ->
            GetValueResult(lk, call.key, NoAddress).outcome
      [] call.op = "find" -> FindResult(lk.data, call.street).outcome
      [] call.op = "get_variants" ->
            GetVariantsResult(lk.data, call.street).outcome

RowsOfKey == {i \in 1..Len(linker.df) : linker.df[i].Key = call.key}

\* the Address of the Name, the Type and the House of row i, without a flat
ValueOfRow(i) ==
    Address(Street(linker.df[i].Name, FromStr(linker.df[i].Type)),
            linker.df[i].House, NoFlat)

\* C14: getvalue never raises; it returns the Address of the Name, Type and
\* House of the row of the key when exactly one row has the key, and the
\* default when no row or several rows have it
C14_GetValue ==
    call.op = "getvalue" =>
        /\ call.outcome.kind = "return"
        /\ Cardinality(RowsOfKey) = 1
              => call.value = ValueOfRow(CHOOSE i \in RowsOfKey : TRUE)
        /\ Cardinality(RowsOfKey) # 1 => call.value = NoAddress

(***************************************************************************)
(* Properties of find.                                                     *)
(***************************************************************************)
\* the streets listed under the best-ranked spelling of the street asked for
UnderBestSpelling == GetVariants(linker.data, call.street)

\* find was asked for a street that carries a type, and the best-ranked
\* spelling lists several streets
TypedSeveral ==
    /\ call.op = "find" /\ call.outcome.kind = "return"
    /\ call.street.type # NoneType
    /\ Len(UnderBestSpelling) > 1

\* C15: when the street asked for carries a type and the best-ranked
\* spelling lists several streets, find returns the list of those of them
\* that have the type asked for: all of them, no other, the empty list when
\* there is none
C15_TypeSubset ==
    TypedSeveral =>
        call.found =
            [none |-> FALSE,
             streets |-> SelectSeq(UnderBestSpelling,
                             LAMBDA v : v.type = call.street.type)]

\* the streets listed under the best-ranked spelling of the street of the
\* address link was asked for
Candidates == GetVariants(linker.data, call.address.street)

\* link was asked for a street that carries a type, and the best-ranked
\* spelling lists several streets
LinkTypedSeveral ==
    /\ Linked /\ ~Absent /\ call.address.street.name # NoneStr
    /\ call.address.street.type # NoneType
    /\ Len(Candidates) > 1

\* C16: for an address whose street carries a type, link tests only
\* streets of that type when the best-ranked spelling lists one, and when
\* it lists several streets none of which has the type, link tests every
\* one of them against the rows and keeps those with a unique row
C16_TypedFallBack ==
    LinkTypedSeveral =>
        IF \E v \in 1..Len(Candidates) :
               Candidates[v].type = call.address.street.type
        THEN /\ call.tested # <<>>
             /\ \A e \in 1..Len(call.tested) :
                   call.tested[e].street.type = call.address.street.type
        ELSE /\ call.tested = MatchesOf(linker, call.address, Candidates,
                                        call.rfc)
             /\ call.outcome = ByCount(Collect(call.tested))

(***************************************************************************)
(* Properties of remove and append.                                        *)
(***************************************************************************)
\* the list without the street removed
Without(list) == SelectSeq(list, LAMBDA x : x # done.street)

\* C17: after remove(street) no list of the bank holds the street, the
\* spellings that listed it alone are gone, and every other spelling lists
\* the streets it listed before, without the street, in the same order
C17_Remove ==
    done.op = "remove" =>
        /\ \A k \in DOMAIN finder : ~InList(done.street, finder[k])
        /\ DOMAIN finder =
              {k \in DOMAIN done.before : Without(done.before[k]) # <<>>}
        /\ \A k \in DOMAIN finder : finder[k] = Without(done.before[k])

\* the street removed was listed alone under one spelling, which is gone,
\* and before another street under another, which lists that street still
C17_Witness ==
    /\ done.op = "remove"
    /\ \E k \in DOMAIN done.before :
          done.before[k] = <<done.street>> /\ k \notin DOMAIN finder
    /\ \E k \in DOMAIN done.before :
          /\ Len(done.before[k]) = 2
          /\ done.before[k][1] = done.street
          /\ finder[k] = <<done.before[k][2]>>

\* the words of a name with every word equal to word replaced by variant
SubstituteWord(words, word, variant) ==
    [i \in 1..Len(words) |-> IF words[i] = word THEN variant ELSE words[i]]

\* the spellings of a name when a variant replaces a word and only that word
WordwiseSpellings(name) ==
    {name} \cup
    {Join(SubstituteWord(Split(name), Split(name)[i], Abbreviations[Split(name)[i]][j])) :
        <<i, j>> \in {<<x, y>> \in (1..Len(Split(name))) \X (1..2) :
                        /\ Split(name)[x] \in DOMAIN Abbreviations
                        /\ y <= Len(Abbreviations[Split(name)[x]])}}

\* the spellings of the bank that list the street
SpellingsOf(data, street) == {k \in DOMAIN data : InList(street, data[k])}

\* C18: append(street) lists the street under its name and under the
\* spellings in which a variant replaces an abbreviated word and only that
\* word, under no other new spelling, and leaves the other streets' entries
\* as they were
C18_Append ==
    done.op = "append" =>
        /\ SpellingsOf(finder, done.street) =
              SpellingsOf(done.before, done.street)
                 \cup WordwiseSpellings(done.street.name)
        /\ \A k \in DOMAIN finder :
              Without(finder[k]) =
                 IF k \in DOMAIN done.before THEN Without(done.before[k])
                 ELSE <<>>

(***************************************************************************)
(* Properties of the street types.                                         *)
(***************************************************************************)
\* C19: the short names of the members are pairwise distinct, and fromStr
\* of the short name and of the full name of a member returns the member
C19_ShortForms ==
    /\ \A v, w \in StreetTypes : ShortName(v) = ShortName(w) => v = w
    /\ parsed.op = "fromStr" =>
          \A v \in StreetTypes :
             parsed.text \in {ShortName(v), FullName(v)} => parsed.type = v

\* fromStr has read the short name of a proezd, whose keywords share a word
\* with those of a pereulok and of a prospect
C19_Witness ==
    /\ parsed.op = "fromStr"
    /\ parsed.text = ShortName("PROEZD")
    /\ parsed.type = "PROEZD"
    /\ ShortName(parsed.type) = parsed.text

\* the members whose alternative accepts the text
VariantsOf(text) == {t \in StreetTypes : TypeWord(text) \in Keywords(t)}

\* C20: a text the type grammar accepts is a keyword of exactly one member,
\* and fromStr and the TYPE rule of the address grammar give it the same
\* member
C20_OneVariant ==
    (parsed.op \in {"fromStr", "TYPE"} /\ parsed.type # "ValueError") =>
        /\ Cardinality(VariantsOf(parsed.text)) = 1
        /\ parsed.type = FromStr(parsed.text)
        /\ parsed.type = GrammarType(parsed.text)

(***************************************************************************)
(* Properties of link without the flat check.                              *)
(***************************************************************************)
\* the address without its flat
Flatless(address) == [address EXCEPT !.flat = NoFlat]

\* C23: with require_flat_check false the outcome of link for an address
\* with a flat is the outcome for the same address without the flat
C23_FlatIgnored ==
    (call.op = "link" /\ ~call.rfc /\ ~call.address.isNone
        /\ call.address.flat # NoFlat) =>
        call.outcome = LinkResult(linker, Flatless(call.address), FALSE).outcome

\* link without the flat check raised UnresolvedAmbigiuty for an address
\* with a flat and no type that the flat check resolves to one key
C23_Witness ==
    /\ call.op = "link" /\ ~call.rfc /\ ~call.address.isNone
    /\ call.address.flat # NoFlat
    /\ call.address.street.type = NoneType
    /\ call.outcome = Raise("UnresolvedAmbigiuty")
    /\ LinkResult(linker, call.address, TRUE).outcome.kind = "return"

(***************************************************************************)
(* Properties of the key link returns.                                     *)
(***************************************************************************)
\* row i has the house of the address, the name of a street find returned,
\* and, when the flat is checked, a flat range that holds the flat
RowFits(i) ==
    /\ linker.df[i].House = Upper(call.address.house)
    /\ \E j \in 1..Len(call.found.streets) :
          linker.df[i].Name = call.found.streets[j].name
    /\ (call.address.flat # NoFlat /\ call.rfc) =>
          /\ linker.df[i].Flat_start <= call.address.flat
          /\ call.address.flat <= linker.df[i].Flat_end

\* C27: a key link returns is the Key of a row of the house of the address
\* and of the name of a street find returned, whose flat range holds the
\* flat when the address has one and the flat check is asked for
C27_KeyOfFittingRow ==
    (Linked /\ call.outcome.kind = "return") =>
        \E i \in 1..Len(linker.df) :
            linker.df[i].Key = call.outcome.key /\ RowFits(i)

\* link returned, with the flat check, the key of the one of two rows of
\* the house whose flat range holds the flat, for a house written in lower
\* case
C27_Witness ==
    /\ Linked /\ call.outcome.kind = "return" /\ call.rfc
    /\ call.address.flat # NoFlat
    /\ call.address.house # Upper(call.address.house)
    /\ \E i, j \in 1..Len(linker.df) :
          /\ linker.df[i].Key = call.outcome.key /\ RowFits(i)
          /\ linker.df[j].Key # call.outcome.key
          /\ linker.df[j].House = linker.df[i].House
          /\ linker.df[j].Name = linker.df[i].Name
          /\ ~RowFits(j)

\* C28: when link returns a key for an address whose street has a type, the
\* row of that key has the short form of that type as its Type
C28_TypeOfRow ==
    (Linked /\ call.outcome.kind = "return"
        /\ call.address.street.type # NoneType) =>
        \A i \in 1..Len(linker.df) :
            linker.df[i].Key = call.outcome.key =>
                linker.df[i].Type = ShortName(call.address.street.type)

(***************************************************************************)
(* Properties of the bank under append and remove.                         *)
(***************************************************************************)
\* no two places of the list hold equal Streets
NoTwoEqual(list) ==
    \A i, j \in 1..Len(list) : list[i] = list[j] => i = j

\* C25: every spelling of the bank has a list that is not empty and holds
\* no Street twice, and append of a street the bank lists leaves the bank
\* as it was
C25_BankLists ==
    /\ \A k \in DOMAIN finder : finder[k] # <<>> /\ NoTwoEqual(finder[k])
    /\ (done.op = "append" /\ done.street \in StreetsOf(done.before)) =>
          finder = done.before

\* a street the bank lists, under a spelling it shares with another street,
\* was appended again, after a remove
C25_Witness ==
    /\ done.op = "append" /\ done.street \in StreetsOf(done.before)
    /\ done.prevOp = "remove"
    /\ finder = done.before
    /\ \E k \in DOMAIN finder :
          Len(finder[k]) = 2 /\ InList(done.street, finder[k])

\* C29: remove(s) just after append(s) to a bank that did not list s gives
\* back the bank as it was before the append, and remove of a street the
\* bank does not list leaves the bank as it was
C29_AppendRemove ==
    /\ (done.op = "remove" /\ done.prevOp = "append"
           /\ done.prevStreet = done.street
           /\ done.street \notin StreetsOf(done.prevBefore)) =>
          finder = done.prevBefore
    /\ (done.op = "remove" /\ done.street \notin StreetsOf(done.before)) =>
          finder = done.before

\* a street was appended to a bank that listed another street under one of
\* its spellings, and removed again
C29_Witness ==
    /\ done.op = "remove" /\ done.prevOp = "append"
    /\ done.prevStreet = done.street
    /\ done.street \notin StreetsOf(done.prevBefore)
    /\ finder = done.prevBefore
    /\ \E k \in DOMAIN done.before :
          Len(done.before[k]) = 2 /\ InList(done.street, done.before[k])
    /\ \E k \in DOMAIN done.before : k \notin DOMAIN finder


(***************************************************************************)
(* Properties of Address.fromStr.                                          *)
(***************************************************************************)
\* fromStr returned an Address
FromStrReturned == record.op = "fromStr" /\ record.outcome.kind = "return"

\* the suffix a corpus or a stroenie adds to the house
Suffix(mark, value) ==
    IF value = NoneStr THEN <<>> ELSE <<" ">> \o mark \o <<" ">> \o value

\* C21: the house of the Address fromStr returns is the house number
\* parsed, then " K. " and the corpus when there is one, then " STR. " and
\* the stroenie when there is one; the Address has a street, a house and a
\* flat and no other field, and its flat is the number parsed, or none
C21_HouseFolded ==
    FromStrReturned =>
        /\ record.outcome.address.house
              = record.fact.House
                \o Suffix(<<"K", ".">>, record.fact.Corpus)
                \o Suffix(<<"S", "T", "R", ".">>, record.fact.Stroenie)
        /\ DOMAIN record.outcome.address = {"isNone", "street", "house", "flat"}
        /\ record.outcome.address.flat
              = (IF record.fact.Flat = NoneStr THEN NoFlat
                 ELSE IntValue(record.fact.Flat))
        /\ (record.fact.Flat = NoneStr) =
              (Len(Numbers(record.raw))
                  = Len(Numbers(record.fact.House))
                    + (IF record.fact.Corpus = NoneStr THEN 0 ELSE 1)
                    + (IF record.fact.Stroenie = NoneStr THEN 0 ELSE 1))

\* a text with the stroenie before the corpus and a flat is parsed
C21_Witness ==
    /\ FromStrReturned
    /\ record.raw = <<"A", "B", " ", "2", " ", "s", " ", "3", " ", "k", " ", "1", " ", "k", "v", " ", "2">>
    /\ record.fact.Corpus = <<"1">>
    /\ record.fact.Stroenie = <<"3">>
    /\ record.outcome.address.house = <<"2", " ", "K", ".", " ", "1", " ", "S", "T", "R", ".", " ", "3">>
    /\ record.outcome.address.flat = 2

\* C22: for a text with no street and house to recognize, a bare word, an
\* empty text, whitespace or punctuation among them, fromStr returns no
\* Address and fails with the ValueError of a text that cannot be parsed
C22_Unparseable ==
    (/\ record.op = "fromStr"
     /\ \/ Strip(record.raw) = <<>>
        \/ AddressFacts(Tokenize(record.raw)) = {})
        => record.outcome = Failed("ValueError")

\* the words of the name of the street of the Address returned
NameWords ==
    {Lower(w) : w \in {Split(record.outcome.address.street.name)[i] :
                          i \in 1..Len(Split(record.outcome.address.street.name))}}

\* C24: no keyword of a street type (the territory among them) and no
\* house, flat or city marker word satisfies
\* NOT_STREET_TYPE_OR_OTHER_KEYWORD, and none is a word of the street name
\* of a parsed address
C24_KeywordsExcluded ==
    /\ (record.op = "word" /\ record.raw \in MarkerWords) => ~record.free
    /\ FromStrReturned => NameWords \cap MarkerWords = {}

(***************************************************************************)
(* Properties of the expansion of a raw address.                           *)
(***************************************************************************)
\* C30: the expansion of a raw address keeps its numbers: the numbers of
\* the expanded text are the numbers of the raw text, each as many times
\* and in the same order
C30_NumbersKept ==
    record.op = "expand" => Numbers(record.text) = Numbers(record.raw)


(***************************************************************************)
(* Properties of main.process.                                             *)
(***************************************************************************)
\* a record was processed
Processed == record.op = "process"

\* Address.fromStr parses the raw text of the record, on every parse
RawParses == \A q \in FromStrOutcomes(record.raw) : q.kind = "return"

\* Address.fromStr fails on the raw text of the record
RawFails == \A q \in FromStrOutcomes(record.raw) : q.kind = "raise"

\* the message of a record processed without a key tells whether its raw
\* text parses
MessageTells ==
    /\ RawFails => record.result.message = MsgNotParsed
    /\ RawParses => record.result.message = MsgNotExists

\* C26 as stated: process raises for no record; a record without a key
\* has the message "Adres ne razobran" when its raw text cannot be parsed
\* and "Adres ne sushchestvuet" when it parses
C26_Original ==
    Processed =>
        /\ record.result.kind = "return"
        /\ record.result.key = NoKey => MessageTells

\* C26: process raises for no record; a record without a key that has no
\* entry in the exceptions has the message "Adres ne razobran" when its
\* raw text cannot be parsed and "Adres ne sushchestvuet" when it parses
C26_PerRecordOutcome ==
    Processed =>
        /\ record.result.kind = "return"
        /\ (record.result.key = NoKey /\ ~Listed(record.manager, record.raw))
              => MessageTells

\* a record whose raw text cannot be parsed was processed without an
\* exceptions manager and came back without a key
C26_Witness ==
    /\ Processed
    /\ record.manager = NoManager
    /\ record.result.key = NoKey
    /\ record.raw = <<".", ",">>
    /\ record.result.message = MsgNotParsed

====
